---- MODULE Spec2Model ----
(***************************************************************************)
(* Model of the Dephy bootloader's flashing workflow:                      *)
(*   - set_tunnel_mode (utilities/system_utils.py, utilities/system.py):   *)
(*     the polling handshake that activates a target's bootloader;         *)
(*   - _call_flash_tool (commands/base_flash_command.py,                   *)
(*     commands/flash_microcontroller.py): the vendor tool subprocess with *)
(*     its timeout and retry loop;                                         *)
(*   - the commands that drive them: flash, microcontroller, bt121, xbee,  *)
(*     configure-bt, configure-xbee.                                       *)
(* One run of the program executes one entry point, chosen in Init         *)
(* together with its command-line arguments.                               *)
(***************************************************************************)
EXTENDS Integers, Sequences, FiniteSets

VARIABLES
    \* ---- the invocation
    entry,        \* the entry point being run
    pc,           \* position in the command's handle()
    status,       \* "running", "returned", "returned1" (handle returns 1),
                  \* "exit1", "raised"
    error,        \* name of the exception that ended the run, "" if none
    out,          \* last diagnostic line printed
    \* ---- set_tunnel_mode(port, baudRate, target, timeout)
    variant,      \* which module's set_tunnel_mode: "system_utils" or "system"
    hpc,          \* "idle", "start", "loop", "after", "returned", "raised"
    T0,           \* the timeout argument
    timeout,      \* the remaining timeout
    state,        \* last device state the function holds
    hsRet,        \* "none", "True", "False": the returned boolean
    hdev,         \* the Device the function creates: "none", "closed", "open"
    sends,        \* activate_bootloader calls made
    queries,      \* is_bootloader_activated calls made
    waits,        \* seconds slept in the loop
    firstSuccess, \* index of the first query that returned FX_SUCCESS, 0 if none
    lastSend,     \* outcome of the activation send of the last iteration
    lastQuery,    \* outcome of the state query of the last iteration
    \* ---- the command's arguments, device and plan
    cli,          \* command line: [target, forceHabs, firmware]
    hasHabs,      \* the device reports a Habs board
    devOpen,      \* self._device's serial connection is open
    devExists,    \* self._device has not been deleted
    target,       \* the target being flashed
    plan,         \* the targets of the run, in order
    idx,          \* index in plan of the current target
    slept,        \* seconds slept by the current target's step so far
    \* ---- FlashCommand.handle
    dev,          \* the last Device object made: its number and arguments
    saved,        \* the locals _port, _baudRate, _cLibVersion
    fwExists,     \* the file fwFile names is on disk
    hsLog,        \* result of every self._device.set_tunnel_mode call
    acks,         \* power-cycle prompts the operator has acknowledged
    \* ---- firmware files, the cache and the calls made to collaborators
    opts,         \* what names a firmware file: the device's name, chirality
                  \* and rigid version, and the arguments hardware, to, side
    fwFile,       \* the firmware file of the current target (fwFile, _fwFile)
    argvLog,      \* argument vector of every vendor tool subprocess spawned
    disk,         \* the paths that exist on the local disk
    calls,        \* calls made to collaborators, in order: downloads asked
                  \* of the artifact store, ports tried, steps of _setup
    rets,         \* what each call of the function under test returned
    \* ---- the serial ports, the operator and the cache directories
    ports,        \* comports(): the serial ports, in enumeration order
    openable,     \* the ports on which Device.open() succeeds
    portArg,      \* the port argument / option, "" when not given
    battery,      \* the battery prompt: "unasked", "confirmed", "declined"
    gate,         \* the prompt of BaseFlashCommand._set_tunnel_mode:
                  \* "unasked", "confirmed", "declined"
    cache,        \* the cache directories and files that exist
    cfgTargets,   \* the list object cfg.mcuTargets of the running process
    \* ---- the vendor tool subprocess
    procRunning,  \* a vendor tool subprocess is alive
    attempt,      \* iterations of the retry loop completed without success
    procBound,    \* the local variable proc has been assigned
    procRc,       \* proc.returncode, when bound
    invocations,  \* subprocesses spawned by this tool call
    kills,        \* kill signals issued
    toolLog,      \* outcome of every subprocess spawned, in order
    toolResult    \* how _call_flash_tool ended: "none", "returned", "exit1",
                  \* "raised"

hsVars  == <<variant, hpc, T0, timeout, state, hsRet, hdev, sends, queries,
             waits, firstSuccess, lastSend, lastQuery>>
devVars == <<cli, hasHabs, devOpen, devExists, target, plan, idx, slept>>
toolVars == <<procRunning, attempt, procBound, procRc, invocations, kills,
              toolLog, toolResult>>
flashVars == <<dev, saved, fwExists, hsLog, acks>>
fileVars == <<opts, fwFile, argvLog, disk, calls, rets>>
sysVars == <<ports, openable, portArg, battery, cache, cfgTargets>>
runVars == <<entry, pc, status, error, out, gate>>
vars == <<runVars, hsVars, devVars, flashVars, fileVars, toolVars, sysVars>>

(***************************************************************************)
(* Bounds of the model.                                                    *)
(***************************************************************************)
\* largest timeout argument given to set_tunnel_mode
MaxTimeout == 11
\* largest exit code a vendor tool returns
MaxRc == 2
\* the calls of a function called on its own
MaxCalls == 2

(***************************************************************************)
(* Program constants.                                                      *)
(***************************************************************************)
nRetries == 5
ResendInterval == 5
wait == 1
BaudRate == 230400
\* set_tunnel_mode(self._port, baudRate, "BT121", 20): the timeout that the
\* callers pass
CallerTimeout == 20

\* fxe.FX_SUCCESS / fxe.FX_FAILURE and one more state the device may report
FX_SUCCESS == "FX_SUCCESS"
FX_FAILURE == "FX_FAILURE"
DeviceStates == {FX_SUCCESS, FX_FAILURE, "FX_INVALID_PARAM"}

\* outcomes of device.activate_bootloader(target)
SendOutcomes == {"ok", "IOError", "ValueError"}
\* outcomes of device.is_bootloader_activated()
QueryOutcomes == DeviceStates \cup {"IOError", "ValueError"}
\* outcomes of Device(port, baudRate); device.open(); app_type check
OpenOutcomes == {"ok", "OSError", "IOError", "badAppType"}

Variants == {"system_utils", "system"}

(***************************************************************************)
(* set_tunnel_mode                                                         *)
(***************************************************************************)
LoopCond_NoTimeout(t, s) == s # FX_SUCCESS
LoopCond_OffByOne(t, s) == t > 1 /\ s # FX_SUCCESS
LoopCond_IgnoreState(t, s) == t > 0
\* while timeout > 0 and state != fxe.FX_SUCCESS.value
LoopCond(t, s) == t > 0 /\ s # FX_SUCCESS

ShouldSend_AfterFirst(t) == t % ResendInterval = ResendInterval - 1
ShouldSend_Always(t) == TRUE
\* if timeout % 5 == 0
ShouldSend(t) == t % ResendInterval = 0

QueryRaises_IOErrorToo(q) == q \in {"ValueError", "IOError"}
QueryRaises_Never(q) == FALSE
\* except ValueError as err: raise ... from err
QueryRaises(q) == q = "ValueError"

\* the exception set_tunnel_mode raises when device.open() fails
OpenError(v) == IF v = "system_utils" THEN "IOError" ELSE "RuntimeError"
\* the exception set_tunnel_mode raises when the state query raises ValueError
QueryError(v) == IF v = "system_utils" THEN "ValueError" ELSE "RuntimeError"

\* state after the query of one iteration: IOError keeps the last state
StateAfterQuery(s, q) == IF q \in DeviceStates THEN q ELSE s

\* Device(...), device.open(...), the app_type check, and the loop's setup
HsOpen(o) ==
    /\ entry = "set_tunnel_mode"
    /\ hpc = "start"
    /\ IF o = "OSError"
         THEN /\ hpc' = "raised" /\ error' = "OSError" /\ hdev' = "none"
         ELSE IF o = "IOError"
         THEN /\ hpc' = "raised" /\ error' = OpenError(variant)
              /\ hdev' = "closed"
         ELSE IF o = "badAppType"
         THEN /\ hpc' = "raised" /\ error' = "RuntimeError" /\ hdev' = "open"
         ELSE /\ hdev' = "open" /\ error' = error
              /\ hpc' = IF LoopCond(T0, FX_FAILURE) THEN "loop" ELSE "after"
    /\ status' = IF o = "ok" THEN status ELSE "raised"
    /\ timeout' = T0
    /\ state' = FX_FAILURE
    /\ UNCHANGED <<entry, gate, pc, out, variant, T0, hsRet, sends, queries, waits,
                   firstSuccess, lastSend, lastQuery>>
    /\ UNCHANGED <<devVars, toolVars>>
    /\ UNCHANGED flashVars
    /\ UNCHANGED fileVars
    /\ UNCHANGED sysVars

\* one iteration of the while loop: send, sleep, decrement, query
HsIterate(so, q) ==
    /\ entry = "set_tunnel_mode"
    /\ hpc = "loop"
    /\ so \in (IF ShouldSend(timeout) THEN SendOutcomes ELSE {"none"})
    /\ sends' = sends + (IF ShouldSend(timeout) THEN 1 ELSE 0)
    /\ lastSend' = so
    /\ waits' = waits + wait
    /\ timeout' = timeout - wait
    /\ queries' = queries + 1
    /\ lastQuery' = q
    /\ state' = StateAfterQuery(state, q)
    /\ firstSuccess' = IF firstSuccess = 0 /\ q = FX_SUCCESS
                         THEN queries + 1 ELSE firstSuccess
    /\ IF QueryRaises(q)
         THEN /\ hpc' = "raised" /\ error' = QueryError(variant)
              /\ status' = "raised"
         ELSE /\ hpc' = IF LoopCond(timeout', state') THEN "loop" ELSE "after"
              /\ UNCHANGED <<error, status>>
    /\ UNCHANGED <<entry, gate, pc, out, variant, T0, hsRet, hdev>>
    /\ UNCHANGED <<devVars, toolVars>>
    /\ UNCHANGED flashVars
    /\ UNCHANGED fileVars
    /\ UNCHANGED sysVars

\* if state == FX_SUCCESS: result = True; device.close(); return result
HsFinish ==
    /\ entry = "set_tunnel_mode"
    /\ hpc = "after"
    /\ hsRet' = IF state = FX_SUCCESS THEN "True" ELSE "False"
    /\ hdev' = "closed"
    /\ hpc' = "returned"
    /\ status' = "returned"
    /\ UNCHANGED <<entry, gate, pc, error, out, variant, T0, timeout, state, sends,
                   queries, waits, firstSuccess, lastSend, lastQuery>>
    /\ UNCHANGED <<devVars, toolVars>>
    /\ UNCHANGED flashVars
    /\ UNCHANGED fileVars
    /\ UNCHANGED sysVars

(***************************************************************************)
(* Firmware files: their names, their place in the cache and their keys in *)
(* the artifact store.  A path is written with forward slashes, relative   *)
(* to cfg.cacheDir.                                                        *)
(***************************************************************************)
\* the devices of the runs: self._device.deviceName, .isChiral,
\* .rigidVersion
Devices ==
    {[name |-> "actpack", chiral |-> FALSE, rigid |-> "4.1B"],
     [name |-> "exo", chiral |-> TRUE, rigid |-> "4.1B"]}

\* a device together with the arguments hardware, to and side of a command
OptsOf(d, hardware, to, side) ==
    [name |-> d.name, chiral |-> d.chiral, rigid |-> d.rigid,
     hardware |-> hardware, to |-> to, side |-> side]

NoOpts ==
    [name |-> "", chiral |-> FALSE, rigid |-> "", hardware |-> "",
     to |-> "", side |-> ""]

\* the file the option firmware (flash) or file (microcontroller) names
GivenFile == "given.bin"

\* su.build_bt_image_file, FlashBT121Command._build_bt_image: the image
BtImageFile == "tools/bt121_image_tools/output/image.bin"

fwExtensions_ReHex ==
    [habs |-> "hex", ex |-> "cyacd", re |-> "hex", mn |-> "dfu"]
\* cfg.fwExtensions
fwExtensions ==
    [habs |-> "hex", ex |-> "cyacd", re |-> "cyacd", mn |-> "dfu"]

\* cfg.firmwareDir, cfg.toolsDir
firmwareDir == "firmware"
toolsDir == "tools"

\* Path(a).joinpath(b) and os.path.join(a, b), as_posix
Join(a, b) == a \o "/" \o b

\* rigid = self.option("hardware") if given, else self._device.rigidVersion
Rigid(o) == IF o.hardware # "" THEN o.hardware ELSE o.rigid

\* FlashCommand._get_firmware: fwFile
FlashFirmwareFile(o, t) ==
    o.name \o "_rigid-" \o Rigid(o) \o "_" \o t \o "_firmware-" \o o.to
        \o "." \o fwExtensions[t]

\* FlashCommand._get_firmware: fwObj
FlashObjectKey(o, t) ==
    Join(Join(Join(o.to, o.name), Rigid(o)), FlashFirmwareFile(o, t))

\* FlashMicrocontrollerCommand._build_firmware_file asks for the side:
\* if self._target == "mn" and _name != "actpack"
McuNeedsSide(o, t) == t = "mn" /\ o.name # "actpack"

\* FlashMicrocontrollerCommand._build_firmware_file raises RuntimeError
\* before it computes a destination: an option it requires is missing
McuIncomplete(o, t) ==
    \/ o.hardware = ""
    \/ o.to = ""
    \/ McuNeedsSide(o, t) /\ o.side = ""

\* FlashMicrocontrollerCommand._build_firmware_file: fwFile; hw is the
\* option hardware
McuFirmwareFile(o, t) ==
    IF McuNeedsSide(o, t)
      THEN o.name \o "_rigid-" \o o.hardware \o "_" \o t \o "_firmware-"
               \o o.to \o "_side-" \o o.side \o "." \o fwExtensions[t]
      ELSE o.name \o "_rigid-" \o o.hardware \o "_" \o t \o "_firmware-"
               \o o.to \o "." \o fwExtensions[t]

\* FlashMicrocontrollerCommand._build_firmware_file: fwObj
McuObjectKey(o, t) ==
    Join(Join(Join(o.to, o.name), o.hardware), McuFirmwareFile(o, t))

\* DownloadFirmwareCommand._build_firmware_file: self._fwFile; hwVer is
\* the argument hwVer
DownloadFirmwareFile(o, t) ==
    o.name \o "_rigid-" \o o.hardware \o "_" \o t \o "_firmware-" \o o.to
        \o "." \o fwExtensions[t]

\* DownloadFirmwareCommand._download_firmware: dest joined with the file
DownloadDest(o, t) ==
    Join(Join(Join(firmwareDir, o.to), o.name), DownloadFirmwareFile(o, t))

\* DownloadFirmwareCommand._download_firmware: fwObj
DownloadObjectKey(o, t) ==
    o.to \o "/" \o o.name \o "/" \o DownloadFirmwareFile(o, t)

(***************************************************************************)
(* The argument vectors of the vendor tools                                *)
(***************************************************************************)
Digits == {"0", "1", "2", "3", "4", "5", "6", "7", "8", "9"}

\* s[-1]
LastChar(s) == SubSeq(s, Len(s), Len(s))

\* the suffix of s that starts after position i, once s[i] is no digit
RECURSIVE DigitSuffixFrom(_, _)
DigitSuffixFrom(s, i) ==
    IF i >= 1 /\ SubSeq(s, i, i) \in Digits
      THEN DigitSuffixFrom(s, i - 1)
      ELSE SubSeq(s, i + 1, Len(s))

\* re.search(r"\d+$", s).group(0)
TrailingDigits(s) == DigitSuffixFrom(s, Len(s))

\* the STMFlashLoader.exe command line around the port number and the file
StmLoaderCmd(portNum, fw) ==
    <<Join(Join(Join(toolsDir, "stm32_flash_loader"), "stm32_flash_loader"),
           "STMFlashLoader.exe"),
      "-c", "--pn", portNum, "--br", "115200", "--db", "8", "--pr", "NONE",
      "-i", "STM32F3_7x_8x_256K", "-e", "--all", "-d", "--fn", fw, "-o",
      "--set", "--vals", "--User", "0xF00F">>

\* FlashMicrocontrollerCommand._flashCmd
McuFlashCmd(t, port, fw) ==
    IF t = "mn"
      THEN <<Join(toolsDir, "DfuSeCommand.exe"), "-c", "-d", "--fn", fw>>
    ELSE IF t \in {"ex", "re"}
      THEN <<Join(toolsDir, "psocbootloaderhost.exe"), port, fw>>
    ELSE StmLoaderCmd(TrailingDigits(port), fw)

\* FlashHabsoluteCommand._build_flash_command
HabsBuildFlashCommand(port, fw) == StmLoaderCmd(TrailingDigits(port), fw)

\* FlashBT121Command._flashCmd
Bt121FlashCmd(port, fw) ==
    <<Join(toolsDir, "stm32flash"), "-w", fw, "-b", "115200", port>>

\* FlashXbeeCommand._flashCmd; the two addresses are arguments of the run
XbeeFlashCmd(port) ==
    <<"python3", Join(toolsDir, "xb24c.py"), port, "address", "buddyAddress",
      "upgrade">>

FlashCmd_PerAttempt(e, t, port, fw) ==
    IF attempt = 0 THEN McuFlashCmd(t, port, fw) ELSE <<"retry">>

\* self._flashCmd, a property evaluated by every iteration of the retry loop
FlashCmd(e, t, port, fw) ==
    IF e = "microcontroller" THEN McuFlashCmd(t, port, fw)
    ELSE IF e = "bt121" THEN Bt121FlashCmd(port, fw)
    ELSE XbeeFlashCmd(port)

GetFlashCmd_InCache(t, port, fw) ==
    IF t = "habs" THEN StmLoaderCmd(LastChar(port), Join(firmwareDir, fw))
    ELSE IF t \in {"ex", "re"}
      THEN <<Join(toolsDir, "psocbootloaderhost.exe"), port,
             Join(firmwareDir, fw)>>
    ELSE <<Join(toolsDir, "DfuSeCommand.exe"), "-c", "-d", "--fn",
           Join(firmwareDir, fw)>>

\* FlashCommand._get_flash_cmd: _flash_habs, _flash_ex, _flash_re, _flash_mn
GetFlashCmd(t, port, fw) ==
    IF t = "habs" THEN StmLoaderCmd(LastChar(port), fw)
    ELSE IF t \in {"ex", "re"}
      THEN <<Join(toolsDir, "psocbootloaderhost.exe"), port, fw>>
    ELSE <<Join(toolsDir, "DfuSeCommand.exe"), "-c", "-d", "--fn", fw>>

(***************************************************************************)
(* _call_flash_tool                                                        *)
(***************************************************************************)
ToolCommands == {"microcontroller", "bt121", "xbee"}
PopenCommands == {"flash", "configure-bt", "configure-xbee"}

\* one entry of toolLog
Exited(rc) == [rc |-> rc, timedOut |-> FALSE]
TimedOut == [rc |-> 0, timedOut |-> TRUE]

BreaksLoop_Never(rc) == FALSE
\* if proc.returncode == 0: break
BreaksLoop(rc) == rc = 0

RetriesAfterTimeout_Yes == TRUE
\* except sub.TimeoutExpired: self.line("Timeout."); sys.exit(1)
RetriesAfterTimeout == FALSE

\* sub.run(self._flashCmd, ...) starts the vendor tool
ToolSpawn ==
    /\ entry \in ToolCommands
    /\ pc = "tool"
    /\ ~procRunning
    /\ attempt < nRetries
    /\ procRunning' = TRUE
    /\ invocations' = invocations + 1
    /\ argvLog' = Append(argvLog,
                         FlashCmd(entry, target, dev.args.port, fwFile))
    /\ UNCHANGED <<attempt, procBound, procRc, kills, toolLog, toolResult>>
    /\ UNCHANGED <<runVars, hsVars, devVars>>
    /\ UNCHANGED flashVars
    /\ UNCHANGED <<opts, fwFile, disk, calls, rets>>
    /\ UNCHANGED sysVars

\* the vendor tool exits with code rc before the timeout; check=True turns a
\* non-zero code into CalledProcessError, which the loop answers by continue
ToolExit(rc) ==
    /\ entry \in ToolCommands
    /\ pc = "tool"
    /\ procRunning
    /\ procRunning' = FALSE
    /\ toolLog' = Append(toolLog, Exited(rc))
    /\ IF rc = 0
         THEN /\ procBound' = TRUE
              /\ procRc' = rc
              /\ attempt' = IF BreaksLoop(rc) THEN attempt ELSE attempt + 1
              /\ pc' = IF BreaksLoop(rc) \/ attempt + 1 >= nRetries
                         THEN "afterTool" ELSE "tool"
         ELSE /\ UNCHANGED <<procBound, procRc>>
              /\ attempt' = attempt + 1
              /\ pc' = IF attempt + 1 >= nRetries THEN "afterTool" ELSE "tool"
    /\ UNCHANGED <<invocations, kills, toolResult>>
    /\ UNCHANGED <<entry, gate, status, error, out>>
    /\ UNCHANGED <<hsVars, devVars>>
    /\ UNCHANGED flashVars
    /\ UNCHANGED fileVars
    /\ UNCHANGED sysVars

\* the vendor tool is still running after 360 s: sub.run kills it and raises
\* TimeoutExpired
ToolTimeout ==
    /\ entry \in ToolCommands
    /\ pc = "tool"
    /\ procRunning
    /\ procRunning' = FALSE
    /\ kills' = kills + 1
    /\ toolLog' = Append(toolLog, TimedOut)
    /\ out' = "Timeout."
    /\ IF RetriesAfterTimeout
         THEN /\ attempt' = attempt + 1
              /\ pc' = IF attempt + 1 >= nRetries THEN "afterTool" ELSE "tool"
              /\ UNCHANGED <<status, toolResult>>
         ELSE /\ pc' = "exit"
              /\ status' = "exit1"
              /\ toolResult' = "exit1"
              /\ UNCHANGED attempt
    /\ UNCHANGED <<procBound, procRc, invocations>>
    /\ UNCHANGED <<entry, gate, error>>
    /\ UNCHANGED <<hsVars, devVars>>
    /\ UNCHANGED flashVars
    /\ UNCHANGED fileVars
    /\ UNCHANGED sysVars

\* after the loop: if proc.returncode != 0: self.line("Error."); sys.exit(1)
\* proc is a local that only a successful sub.run assigns
ToolAfter ==
    /\ entry \in ToolCommands
    /\ pc = "afterTool"
    /\ IF ~procBound
         THEN /\ status' = "raised" /\ error' = "UnboundLocalError"
              /\ toolResult' = "raised"
              /\ pc' = "exit" /\ out' = out
         ELSE IF procRc # 0
         THEN /\ status' = "exit1" /\ out' = "Error." /\ pc' = "exit"
              /\ toolResult' = "exit1"
              /\ error' = error
         ELSE /\ pc' = "postflash" /\ toolResult' = "returned"
              /\ UNCHANGED <<status, error, out>>
    /\ UNCHANGED <<entry, gate>>
    /\ UNCHANGED <<procRunning, attempt, procBound, procRc, invocations,
                   kills, toolLog>>
    /\ UNCHANGED <<hsVars, devVars>>
    /\ UNCHANGED flashVars
    /\ UNCHANGED fileVars
    /\ UNCHANGED sysVars

(***************************************************************************)
(* The device connection held by a command (self._device).                 *)
(***************************************************************************)
AfterClose_StaysOpen(open) == open
\* self._device.close()
AfterClose(open) == FALSE

AfterOpen_StaysClosed(open) == open
\* self._device.open()
AfterOpen(open) == TRUE

\* the serial ports and firmware versions (the argument "from") of the runs
Ports == {"COM3", "COM12"}
LibVersions == {"7.2.0", "9.1.0"}

\* the arguments find_device and _setup make self._device with
DeviceArgs ==
    [port : Ports, baudRate : {BaudRate}, cLibVersion : LibVersions]

NoArgs == [port |-> "", baudRate |-> 0, cLibVersion |-> ""]
NoDevice == [id |-> 0, args |-> NoArgs]

\* Device(port, baudRate, cLibVersion, ...): the id-th object of the run
NewDevice(id, args) == [id |-> id, args |-> args]

Recreated_Defaults(s) == [s EXCEPT !.cLibVersion = ""]
\* the arguments of Device(_port, _baudRate, _cLibVersion, ...)
Recreated(s) == s

McuTargets == {"habs", "ex", "re", "mn"}
mcuTargets_Reversed == <<"mn", "re", "ex", "habs">>
\* cfg.mcuTargets
mcuTargets == <<"habs", "ex", "re", "mn">>

NoSleep == [pre |-> 0, mid |-> 0, post |-> 0, ack |-> 0]

\* the list without its first occurrence of x (list.remove)
RECURSIVE Remove(_, _)
Remove(seq, x) ==
    IF seq = <<>> THEN <<>>
    ELSE IF Head(seq) = x THEN Tail(seq)
    ELSE <<Head(seq)>> \o Remove(Tail(seq), x)

Contains(seq, x) == \E i \in 1..Len(seq) : seq[i] = x

Targets_IgnoreForce(arg, force, habs) ==
    LET targets == IF arg = "all" THEN cfgTargets ELSE <<arg>>
    IN  IF ~habs /\ Contains(targets, "habs")
          THEN Remove(targets, "habs") ELSE targets

\* FlashCommand._targets: the list returned.  `targets = cfg.mcuTargets`
\* binds the configured list object itself
Targets(arg, force, habs) ==
    LET targets == IF arg = "all" THEN cfgTargets ELSE <<arg>>
    IN  IF ~force /\ ~habs /\ Contains(targets, "habs")
          THEN Remove(targets, "habs") ELSE targets

\* FlashCommand._targets: cfg.mcuTargets after the call; targets.remove
\* works on the configured list when the target is "all"
TargetsConfig(arg, force, habs) ==
    IF arg = "all" THEN Targets(arg, force, habs) ELSE cfgTargets

\* FlashMCUCommand._get_targets: `assert self._target in mcuTargets`
McuTargetKnown(arg) == Contains(cfgTargets, arg)

\* FlashMCUCommand._get_targets: self._targets once the assertion passed
McuGetTargets(arg, habs) ==
    LET targets == IF arg = "all" THEN cfgTargets ELSE <<arg>>
    IN  IF ~habs /\ Contains(targets, "habs")
          THEN Remove(targets, "habs") ELSE targets

(***************************************************************************)
(* Commands built on _call_flash_tool: microcontroller, bt121, xbee        *)
(***************************************************************************)
\* what the command's target is
CmdTarget == IF entry = "microcontroller" THEN cli.target ELSE entry

\* outcomes of preparing the device: only microcontroller asks the operator
PrepOutcomes(e) ==
    IF e = "microcontroller"
      THEN {"ok", "declined", "noDevice", "noFirmware"}
    ELSE {"ok", "noDevice"}

\* FlashMicrocontrollerCommand._prep_device; BaseFlashCommand._get_device
\* o: "ok", or "declined" (the operator does not confirm), or "noDevice",
\* or "noFirmware" (microcontroller: download raises, the device is open);
\* a: the arguments the device is made with.  _build_firmware_file returns
\* the option file, or the cached file, downloading it when it is missing
CmdPrep(o, a) ==
    /\ entry \in ToolCommands
    /\ pc = "prep"
    /\ o \in PrepOutcomes(entry)
    /\ target' = CmdTarget
    /\ LET dest == Join(firmwareDir, McuFirmwareFile(opts, CmdTarget))
           key == McuObjectKey(opts, CmdTarget)
           builds == entry = "microcontroller" /\ ~cli.firmware
           misses == builds /\ dest \notin disk
       IN  /\ (o = "noFirmware") => misses
           /\ calls' = IF misses /\ o \in {"ok", "noFirmware"}
                         THEN Append(calls, <<"download", key, dest>>)
                         ELSE calls
           /\ disk' = IF misses /\ o = "ok" THEN disk \cup {dest} ELSE disk
           /\ fwFile' = IF o # "ok" THEN fwFile
                        ELSE IF entry = "bt121" THEN BtImageFile
                        ELSE IF entry = "xbee" THEN fwFile
                        ELSE IF cli.firmware THEN GivenFile
                        ELSE dest
    /\ IF o = "ok"
         THEN /\ devOpen' = TRUE /\ devExists' = TRUE /\ pc' = "tunnel"
              /\ dev' = NewDevice(1, a)
              /\ UNCHANGED <<status, error>>
         ELSE IF o = "declined"
         THEN /\ status' = "exit1" /\ pc' = "exit"
              /\ UNCHANGED <<devOpen, devExists, dev, error>>
         ELSE IF o = "noFirmware"
         THEN /\ devOpen' = TRUE /\ devExists' = TRUE
              /\ dev' = NewDevice(1, a)
              /\ status' = "raised" /\ error' = "DownloadError"
              /\ pc' = "exit"
         ELSE /\ status' = "raised" /\ error' = "IOError" /\ pc' = "exit"
              /\ UNCHANGED <<devOpen, devExists, dev>>
    /\ UNCHANGED <<entry, gate, out, cli, hasHabs, plan, idx, slept>>
    /\ UNCHANGED <<saved, fwExists, hsLog, acks>>
    /\ UNCHANGED <<opts, argvLog, rets>>
    /\ UNCHANGED <<hsVars, toolVars>>
    /\ UNCHANGED sysVars

CmdSetTunnel_NoGate(confirmed, ok) ==
    /\ entry \in ToolCommands
    /\ pc = "tunnel"
    /\ entry = "microcontroller" => confirmed
    /\ gate' = IF entry = "microcontroller" THEN gate
               ELSE IF confirmed THEN "confirmed" ELSE "declined"
    /\ hsLog' = Append(hsLog, ok)
    /\ IF ok
         THEN /\ pc' = "flash" /\ UNCHANGED status
         ELSE /\ pc' = "exit" /\ status' = "exit1"
    /\ UNCHANGED <<entry, error, out>>
    /\ UNCHANGED <<dev, saved, fwExists, acks>>
    /\ UNCHANGED <<hsVars, devVars, toolVars>>
    /\ UNCHANGED fileVars
    /\ UNCHANGED sysVars

\* _set_tunnel_mode: (bt121, xbee: the operator confirms, else exit 1;)
\* self._device.set_tunnel_mode(target, 20), exit 1 when it returns False
CmdSetTunnel(confirmed, ok) ==
    /\ entry \in ToolCommands
    /\ pc = "tunnel"
    /\ entry = "microcontroller" => confirmed
    /\ ~confirmed => ~ok
    /\ gate' = IF entry = "microcontroller" THEN gate
               ELSE IF confirmed THEN "confirmed" ELSE "declined"
    /\ hsLog' = IF confirmed THEN Append(hsLog, ok) ELSE hsLog
    /\ IF confirmed /\ ok
         THEN /\ pc' = "flash" /\ UNCHANGED status
         ELSE /\ pc' = "exit" /\ status' = "exit1"
    /\ UNCHANGED <<entry, error, out>>
    /\ UNCHANGED <<dev, saved, fwExists, acks>>
    /\ UNCHANGED <<hsVars, devVars, toolVars>>
    /\ UNCHANGED fileVars
    /\ UNCHANGED sysVars

\* seconds slept before self._device.close() in _flash
PreCloseSleep(e, t) ==
    IF e = "microcontroller" /\ t = "ex" THEN 2
    ELSE IF e = "microcontroller" /\ t = "re" THEN 3
    ELSE 0

\* seconds slept between self._device.close() and _call_flash_tool()
PostCloseSleep(e, t) ==
    IF e \in {"bt121", "xbee"} THEN 3
    ELSE IF t = "mn" THEN 3 + 10
    ELSE IF t = "ex" THEN 2
    ELSE IF t = "habs" THEN 6
    ELSE 0

\* seconds slept after _call_flash_tool() returns
PostFlashSleep(e, t) ==
    IF e \in {"bt121", "xbee"} THEN 20
    ELSE IF t \in {"ex", "habs"} THEN 20
    ELSE 0

\* _flash up to the tool call: sleep, close (mn: and delete) the device, sleep
CmdPreFlash ==
    /\ entry \in ToolCommands
    /\ pc = "flash"
    /\ devOpen' = AfterClose(devOpen)
    /\ devExists' = ~(entry = "microcontroller" /\ target = "mn")
    /\ slept' = [slept EXCEPT !.pre = PreCloseSleep(entry, target),
                              !.mid = PostCloseSleep(entry, target)]
    /\ pc' = "tool"
    /\ UNCHANGED <<entry, gate, status, error, out>>
    /\ UNCHANGED <<cli, hasHabs, target, plan, idx>>
    /\ UNCHANGED <<hsVars, toolVars>>
    /\ UNCHANGED flashVars
    /\ UNCHANGED fileVars
    /\ UNCHANGED sysVars

\* _flash after the tool call: sleep; bt121 and xbee ask for a power cycle
\* and exit 1 when the operator declines; handle returns 0
CmdPostFlash(ack) ==
    /\ entry \in ToolCommands
    /\ pc = "postflash"
    /\ entry = "microcontroller" => ack
    /\ slept' = [slept EXCEPT !.post = PostFlashSleep(entry, target)]
    /\ pc' = "exit"
    /\ status' = IF ack THEN "returned" ELSE "exit1"
    /\ UNCHANGED <<entry, gate, error, out>>
    /\ UNCHANGED <<cli, hasHabs, devOpen, devExists, target, plan, idx>>
    /\ UNCHANGED <<hsVars, toolVars>>
    /\ UNCHANGED flashVars
    /\ UNCHANGED fileVars
    /\ UNCHANGED sysVars

(***************************************************************************)
(* The cache directories: InitCommand._setup_cache                         *)
(***************************************************************************)
\* cfg.cacheDir, a firmware file and a tool already in the cache
cacheDir == "cache"
CachedFirmware == Join(firmwareDir, "kept.hex")
CachedTool == Join(toolsDir, "psocbootloaderhost.exe")

\* the cache directory trees that can exist: a file needs its directory,
\* a directory needs cfg.cacheDir
CacheStates ==
    {c \in SUBSET {cacheDir, firmwareDir, toolsDir, CachedFirmware,
                   CachedTool} :
        /\ CachedFirmware \in c => firmwareDir \in c
        /\ CachedTool \in c => toolsDir \in c
        /\ (firmwareDir \in c \/ toolsDir \in c) => cacheDir \in c}

\* d.mkdir(parents=True, exist_ok=True), d a directory of cfg.cacheDir
Mkdir(c, d) == c \cup {cacheDir, d}

SetupCache_Recreate(c) == {cacheDir, firmwareDir, toolsDir}
\* cfg.firmwareDir.mkdir(parents=True, exist_ok=True)
\* cfg.toolsDir.mkdir(parents=True, exist_ok=True)
SetupCache(c) == Mkdir(Mkdir(c, firmwareDir), toolsDir)

DeclinedCache_Created(c) == SetupCache(c)
\* the cache when _setup raises ValueError: `raise ValueError` comes
\* before self._setup_cache()
DeclinedCache(c) == c

(***************************************************************************)
(* Commands that spawn the vendor tool themselves: flash (FlashCommand),   *)
(* configure-bt (ConfigureBT121Command), configure-xbee                    *)
(***************************************************************************)
\* self._setup(port, from): "ok", "declined" (ValueError, caught: exit 1),
\* "failed" (keys, tools or device missing: exit 1, after _setup_cache and
\* the download of _check_keys); find_device returns an open device made
\* with the arguments a.  For flash, the loop header then
\* evaluates self._targets.
PopenSetup(o, a) ==
    /\ entry \in PopenCommands
    /\ pc = "setup"
    /\ IF o # "ok"
         THEN /\ status' = "exit1" /\ pc' = "exit"
              /\ UNCHANGED <<devOpen, devExists, dev, plan, idx, target>>
         ELSE /\ devOpen' = TRUE
              /\ devExists' = TRUE
              /\ dev' = NewDevice(1, a)
              /\ IF entry = "flash"
                   THEN /\ plan' = Targets(cli.target, cli.forceHabs, hasHabs)
                        /\ idx' = 1
                        /\ target' = IF plan' = <<>> THEN target ELSE plan'[1]
                        /\ pc' = IF plan' = <<>> THEN "exit" ELSE "firmware"
                        /\ status' = IF plan' = <<>> THEN "returned" ELSE status
                   ELSE /\ target' = IF entry = "configure-bt" THEN "bt"
                                     ELSE "xbee"
                        /\ pc' = "tunnel"
                        /\ UNCHANGED <<plan, idx, status>>
    /\ battery' = IF o = "declined" THEN "declined" ELSE "confirmed"
    /\ cache' = IF o = "declined" THEN DeclinedCache(cache)
                ELSE IF o = "failed" THEN SetupCache(cache)
                ELSE SetupCache(cache) \cup {CachedTool}
    /\ calls' = IF o = "declined" THEN calls
                ELSE IF o = "failed"
                  THEN calls \o <<<<"mkdir">>, <<"check_keys">>>>
                ELSE calls \o <<<<"mkdir">>, <<"check_keys">>,
                                <<"check_tools">>, <<"open", a.port>>>>
    /\ cfgTargets' = IF o = "ok" /\ entry = "flash"
                       THEN TargetsConfig(cli.target, cli.forceHabs, hasHabs)
                       ELSE cfgTargets
    /\ UNCHANGED <<entry, gate, error, out, cli, hasHabs, slept>>
    /\ UNCHANGED <<saved, fwExists, hsLog, acks>>
    /\ UNCHANGED <<hsVars, toolVars>>
    /\ UNCHANGED <<opts, fwFile, argvLog, disk, rets>>
    /\ UNCHANGED <<ports, openable, portArg>>

\* fwFile = self.option("firmware") or self._get_firmware(target):
\* "ok" (the file is given, cached or downloaded, and on disk),
\* "absent" (the option names no file on disk, or fxu.download returns
\* without writing the file: fwFile is returned all the same),
\* "clientError" (botocore error: the error is printed, sys.exit(1)),
\* "assertion" (download asserts: S3DownloadError).
\* Either exception passes the clause `except exceptions.FirmwareNotFoundError`
\* in handle, a name the exceptions module does not define: evaluating it
\* raises AttributeError, which ends the run.
FlashGetFirmware(o) ==
    /\ entry = "flash"
    /\ pc = "firmware"
    /\ LET dest == Join(firmwareDir, FlashFirmwareFile(opts, target))
           key == FlashObjectKey(opts, target)
           misses == ~cli.firmware /\ dest \notin disk
       IN  /\ cli.firmware => o = IF GivenFile \in disk THEN "ok" ELSE "absent"
           /\ (~cli.firmware /\ ~misses) => o = "ok"
           /\ fwFile' = IF cli.firmware THEN GivenFile
                        ELSE IF o \in {"ok", "absent"} THEN dest
                        ELSE fwFile
           /\ calls' = IF misses THEN Append(calls, <<"download", key, dest>>)
                       ELSE calls
           /\ disk' = IF misses /\ o = "ok" THEN disk \cup {dest} ELSE disk
           /\ fwExists' = (o \in {"ok", "absent"} /\ fwFile' \in disk')
    /\ IF o \in {"ok", "absent"}
         THEN /\ pc' = "tunnel" /\ UNCHANGED <<status, error, out>>
         ELSE /\ pc' = "exit" /\ status' = "raised"
              /\ error' = "AttributeError"
              /\ out' = IF o = "clientError" THEN "botocore error" ELSE out
    /\ slept' = NoSleep
    /\ UNCHANGED <<entry, gate>>
    /\ UNCHANGED <<cli, hasHabs, devOpen, devExists, target, plan, idx>>
    /\ UNCHANGED <<dev, saved, hsLog, acks>>
    /\ UNCHANGED <<opts, argvLog, rets>>
    /\ UNCHANGED <<hsVars, toolVars>>
    /\ UNCHANGED sysVars

PopenSetTunnel_FallThrough(ok) ==
    /\ entry \in PopenCommands
    /\ pc = "tunnel"
    /\ saved' = IF entry = "flash" /\ target = "mn" THEN dev.args ELSE saved
    /\ hsLog' = Append(hsLog, ok)
    /\ pc' = IF entry = "flash" THEN "release" ELSE "popen"
    /\ UNCHANGED <<entry, gate, status, error, out>>
    /\ UNCHANGED <<dev, fwExists, acks>>
    /\ UNCHANGED <<hsVars, devVars, toolVars>>
    /\ UNCHANGED fileVars
    /\ UNCHANGED sysVars

PopenSetTunnel_Skip(ok) ==
    /\ entry \in PopenCommands
    /\ pc = "tunnel"
    /\ saved' = IF entry = "flash" /\ target = "mn" THEN dev.args ELSE saved
    /\ hsLog' = Append(hsLog, ok)
    /\ IF ok
         THEN /\ pc' = IF entry = "flash" THEN "release" ELSE "popen"
              /\ UNCHANGED <<status, idx, target>>
         ELSE IF entry = "flash" /\ idx < Len(plan)
         THEN /\ pc' = "firmware" /\ idx' = idx + 1
              /\ target' = plan[idx + 1] /\ UNCHANGED status
         ELSE /\ pc' = "exit" /\ status' = "returned"
              /\ UNCHANGED <<idx, target>>
    /\ UNCHANGED <<entry, gate, error, out>>
    /\ UNCHANGED <<dev, fwExists, acks>>
    /\ UNCHANGED <<cli, hasHabs, devOpen, devExists, plan, slept>>
    /\ UNCHANGED <<hsVars, toolVars>>
    /\ UNCHANGED fileVars
    /\ UNCHANGED sysVars

\* flash, for mn: _port = self._device.port, ... (the arguments are saved);
\* if not self._device.set_tunnel_mode(target, 20): ... sys.exit(1)
PopenSetTunnel(ok) ==
    /\ entry \in PopenCommands
    /\ pc = "tunnel"
    /\ saved' = IF entry = "flash" /\ target = "mn" THEN dev.args ELSE saved
    /\ hsLog' = Append(hsLog, ok)
    /\ IF ok
         THEN /\ pc' = IF entry = "flash" THEN "release" ELSE "popen"
              /\ UNCHANGED status
         ELSE /\ pc' = "exit" /\ status' = "exit1"
    /\ UNCHANGED <<entry, gate, error, out>>
    /\ UNCHANGED <<dev, fwExists, acks>>
    /\ UNCHANGED <<hsVars, devVars, toolVars>>
    /\ UNCHANGED fileVars
    /\ UNCHANGED sysVars

\* if target != "mn": sleep(2)      (before self._device.close())
FlashPreCloseSleep(t) == IF t # "mn" THEN 2 ELSE 0

FlashPostCloseSleep_NoMnWait(t) == IF t # "habs" THEN 2 ELSE 0
\* if target == "mn": ... sleep(8);  if target != "habs": sleep(2)
FlashPostCloseSleep(t) ==
    (IF t = "mn" THEN 8 ELSE 0) + (IF t # "habs" THEN 2 ELSE 0)

\* sleep(3) after the power-cycle prompt is acknowledged
AfterAckSleep == 3

\* if target == "mn": del self._device
Discards(t) == t = "mn"

\* FlashCommand.handle between the handshake and Popen:
\* sleep; close; for mn del self._device and sleep; sleep
FlashRelease ==
    /\ entry = "flash"
    /\ pc = "release"
    /\ devOpen' = AfterClose(devOpen)
    /\ devExists' = ~Discards(target)
    /\ slept' = [slept EXCEPT !.pre = FlashPreCloseSleep(target),
                              !.mid = FlashPostCloseSleep(target)]
    /\ pc' = "popen"
    /\ UNCHANGED <<entry, gate, status, error, out>>
    /\ UNCHANGED <<cli, hasHabs, target, plan, idx>>
    /\ UNCHANGED flashVars
    /\ UNCHANGED <<hsVars, toolVars>>
    /\ UNCHANGED fileVars
    /\ UNCHANGED sysVars

\* cmd: FlashCommand._get_flash_cmd(target, fwFile) or the configure
\* command's _get_flash_cmd()
PopenCmd(e, t, port, fw) ==
    IF e = "flash" THEN GetFlashCmd(t, port, fw)
    ELSE IF e = "configure-bt" THEN Bt121FlashCmd(port, BtImageFile)
    ELSE XbeeFlashCmd(port)

\* proc = sub.Popen(cmd, ...)
PopenSpawn ==
    /\ entry \in PopenCommands
    /\ pc = "popen"
    /\ procRunning' = TRUE
    /\ invocations' = invocations + 1
    /\ argvLog' = Append(argvLog,
                         PopenCmd(entry, target, dev.args.port, fwFile))
    /\ pc' = "communicate"
    /\ UNCHANGED <<attempt, procBound, procRc, kills, toolLog, toolResult>>
    /\ UNCHANGED <<entry, gate, status, error, out>>
    /\ UNCHANGED <<hsVars, devVars>>
    /\ UNCHANGED flashVars
    /\ UNCHANGED <<opts, fwFile, disk, calls, rets>>
    /\ UNCHANGED sysVars

\* if proc.returncode == 1: ... sys.exit(1)
PopenFails(rc) == rc = 1

\* the subprocess exits with code rc
PopenExit(rc) ==
    /\ entry \in PopenCommands
    /\ pc = "communicate"
    /\ procRunning
    /\ procRunning' = FALSE
    /\ procBound' = TRUE
    /\ procRc' = rc
    /\ toolLog' = Append(toolLog, Exited(rc))
    /\ IF PopenFails(rc)
         THEN /\ pc' = "exit" /\ status' = "exit1" /\ out' = "flashing failed."
         ELSE /\ pc' = "ack" /\ UNCHANGED <<status, out>>
    /\ UNCHANGED <<attempt, invocations, kills, toolResult>>
    /\ UNCHANGED <<entry, gate, error>>
    /\ UNCHANGED <<hsVars, devVars>>
    /\ UNCHANGED flashVars
    /\ UNCHANGED fileVars
    /\ UNCHANGED sysVars

\* flash only: proc.communicate(timeout=360) raises TimeoutExpired;
\* proc.kill(); proc.communicate(); sys.exit(1)
PopenTimeout ==
    /\ entry = "flash"
    /\ pc = "communicate"
    /\ procRunning
    /\ procRunning' = FALSE
    /\ kills' = kills + 1
    /\ toolLog' = Append(toolLog, TimedOut)
    /\ out' = "flash command timed out."
    /\ pc' = "exit"
    /\ status' = "exit1"
    /\ UNCHANGED <<attempt, procBound, procRc, invocations, toolResult>>
    /\ UNCHANGED <<entry, gate, error>>
    /\ UNCHANGED <<hsVars, devVars>>
    /\ UNCHANGED flashVars
    /\ UNCHANGED fileVars
    /\ UNCHANGED sysVars

\* the operator acknowledges the power-cycle prompt; flash: for mn the
\* device object is created again from the saved arguments; sleep(3);
\* self._device.open(); next target, or "Done!" and return 0.
\* configure-*: sleep(3); return 0
PopenAck ==
    /\ entry \in PopenCommands
    /\ pc = "ack"
    /\ acks' = acks + 1
    /\ slept' = [slept EXCEPT !.ack = AfterAckSleep]
    /\ IF entry = "flash"
         THEN /\ dev' = IF target = "mn"
                          THEN NewDevice(dev.id + 1, Recreated(saved))
                          ELSE dev
              /\ devExists' = (devExists \/ target = "mn")
              /\ devOpen' = AfterOpen(devOpen)
              /\ IF idx < Len(plan)
                   THEN /\ idx' = idx + 1
                        /\ target' = plan[idx + 1]
                        /\ pc' = "firmware"
                        /\ UNCHANGED status
                   ELSE /\ pc' = "exit"
                        /\ status' = "returned"
                        /\ UNCHANGED <<idx, target>>
         ELSE /\ pc' = "exit"
              /\ status' = "returned"
              /\ UNCHANGED <<devExists, devOpen, dev, idx, target>>
    /\ UNCHANGED <<entry, gate, error, out, cli, hasHabs, plan>>
    /\ UNCHANGED <<saved, fwExists, hsLog>>
    /\ UNCHANGED <<hsVars, toolVars>>
    /\ UNCHANGED fileVars
    /\ UNCHANGED sysVars

(***************************************************************************)
(* Firmware resolution on its own: FlashCommand._get_firmware,             *)
(* FlashMicrocontrollerCommand._build_firmware_file and the command        *)
(* download-firmware, called MaxCalls times with the same arguments.       *)
(* calls logs every request to the artifact store, rets every value        *)
(* returned.  The download of a call either writes the file ("ok"),        *)
(* returns without writing it ("absent"), or raises ("clientError",        *)
(* "assertion").                                                           *)
(***************************************************************************)
ResolveCommands == {"get_firmware", "build_firmware_file", "download_firmware"}

DownloadOutcomes == {"ok", "absent", "clientError", "assertion"}

\* the end of a call that returned: the next call, or the end of the run
AfterReturn(n) == IF n < MaxCalls THEN "resolve" ELSE "exit"

\* FlashCommand._get_firmware(target)
GetFirmware(o) ==
    /\ entry = "get_firmware"
    /\ pc = "resolve"
    /\ Len(rets) < MaxCalls
    /\ LET dest == Join(firmwareDir, FlashFirmwareFile(opts, target))
           key == FlashObjectKey(opts, target)
           misses == dest \notin disk
       IN  /\ ~misses => o = "ok"
           /\ calls' = IF misses THEN Append(calls, <<"download", key, dest>>)
                       ELSE calls
           /\ disk' = IF misses /\ o = "ok" THEN disk \cup {dest} ELSE disk
           /\ IF o \in {"ok", "absent"}
                THEN /\ rets' = Append(rets, dest)
                     /\ fwFile' = dest
                     /\ pc' = AfterReturn(Len(rets) + 1)
                     /\ status' = IF Len(rets) + 1 < MaxCalls THEN status
                                  ELSE "returned"
                     /\ UNCHANGED <<error, out>>
              ELSE IF o = "clientError"
                THEN /\ status' = "exit1" /\ out' = "botocore error"
                     /\ pc' = "exit"
                     /\ UNCHANGED <<rets, fwFile, error>>
              ELSE /\ status' = "raised" /\ error' = "S3DownloadError"
                   /\ pc' = "exit"
                   /\ UNCHANGED <<rets, fwFile, out>>
    /\ UNCHANGED <<entry, gate, cli, hasHabs, devOpen, devExists, target, plan, idx,
                   slept>>
    /\ UNCHANGED <<opts, argvLog>>
    /\ UNCHANGED <<hsVars, flashVars, toolVars>>
    /\ UNCHANGED sysVars

\* FlashMicrocontrollerCommand._build_firmware_file, without the option
\* file: the options hardware and to are required, and side when asked for;
\* nothing catches what download raises
BuildFirmwareFile(o) ==
    /\ entry = "build_firmware_file"
    /\ pc = "resolve"
    /\ Len(rets) < MaxCalls
    /\ LET dest == Join(firmwareDir, McuFirmwareFile(opts, target))
           key == McuObjectKey(opts, target)
           incomplete == McuIncomplete(opts, target)
           misses == ~incomplete /\ dest \notin disk
       IN  /\ ~misses => o = "ok"
           /\ calls' = IF misses THEN Append(calls, <<"download", key, dest>>)
                       ELSE calls
           /\ disk' = IF misses /\ o = "ok" THEN disk \cup {dest} ELSE disk
           /\ IF incomplete
                THEN /\ status' = "raised" /\ error' = "RuntimeError"
                     /\ pc' = "exit"
                     /\ UNCHANGED <<rets, fwFile>>
              ELSE IF o \in {"ok", "absent"}
                THEN /\ rets' = Append(rets, dest)
                     /\ fwFile' = dest
                     /\ pc' = AfterReturn(Len(rets) + 1)
                     /\ status' = IF Len(rets) + 1 < MaxCalls THEN status
                                  ELSE "returned"
                     /\ UNCHANGED error
              ELSE /\ status' = "raised"
                   /\ error' = IF o = "clientError" THEN "ClientError"
                               ELSE "AssertionError"
                   /\ pc' = "exit"
                   /\ UNCHANGED <<rets, fwFile>>
    /\ UNCHANGED <<entry, gate, out, cli, hasHabs, devOpen, devExists, target, plan,
                   idx, slept>>
    /\ UNCHANGED <<opts, argvLog>>
    /\ UNCHANGED <<hsVars, flashVars, toolVars>>
    /\ UNCHANGED sysVars

\* DownloadFirmwareCommand.handle: _build_firmware_file, _firmware_exists,
\* _download_firmware.  The file is looked for after the download and
\* S3DownloadError raised when it is missing; handle ends the run on it.
\* What client.download_file raises is not caught.
DownloadFirmware(o) ==
    /\ entry = "download_firmware"
    /\ pc = "resolve"
    /\ Len(rets) < MaxCalls
    /\ LET dest == DownloadDest(opts, target)
           key == DownloadObjectKey(opts, target)
           misses == dest \notin disk
       IN  /\ ~misses => o = "ok"
           /\ o # "assertion"
           /\ calls' = IF misses THEN Append(calls, <<"download", key, dest>>)
                       ELSE calls
           /\ disk' = IF misses /\ o = "ok" THEN disk \cup {dest} ELSE disk
           /\ IF o = "ok"
                THEN /\ rets' = Append(rets, dest)
                     /\ fwFile' = dest
                     /\ pc' = AfterReturn(Len(rets) + 1)
                     /\ status' = IF Len(rets) + 1 < MaxCalls THEN status
                                  ELSE "returned"
                     /\ UNCHANGED error
              ELSE IF o = "absent"
                THEN /\ status' = "exit1" /\ error' = "S3DownloadError"
                     /\ pc' = "exit"
                     /\ UNCHANGED <<rets, fwFile>>
              ELSE /\ status' = "raised" /\ error' = "ClientError"
                   /\ pc' = "exit"
                   /\ UNCHANGED <<rets, fwFile>>
    /\ UNCHANGED <<entry, gate, out, cli, hasHabs, devOpen, devExists, target, plan,
                   idx, slept>>
    /\ UNCHANGED <<opts, argvLog>>
    /\ UNCHANGED <<hsVars, flashVars, toolVars>>
    /\ UNCHANGED sysVars

(***************************************************************************)
(* find_device (utilities/system_utils.py, utilities/system.py), called on *)
(* its own and by InitCommand._setup.  Every Device.open() is logged in    *)
(* calls as <<"open", port>>.                                              *)
(***************************************************************************)
FindCommands == {"find_device", "init"}

\* the ports Device.open() has been called on, in order
Tried ==
    LET RECURSIVE Opens(_)
        Opens(n) ==
            IF n = 0 THEN <<>>
            ELSE IF calls[n][1] = "open"
              THEN Append(Opens(n - 1), calls[n][2])
            ELSE Opens(n - 1)
    IN  Opens(Len(calls))

\* Device(port, 230400)
FoundDevice(p) ==
    NewDevice(1, [port |-> p, baudRate |-> BaudRate, cLibVersion |-> ""])

ScanBreaks_Never(opened) == FALSE
\* device = _device; break
ScanBreaks(opened) == opened

\* else: _device = Device(port, 230400); _device.open();
\* except IOError: raise DeviceNotFoundError(port=port).  InitCommand._setup
\* prints the error and exits with 1
FindDeviceByPort ==
    /\ entry \in FindCommands
    /\ pc = "find"
    /\ portArg # ""
    /\ calls' = Append(calls, <<"open", portArg>>)
    /\ IF portArg \in openable
         THEN /\ dev' = FoundDevice(portArg)
              /\ devOpen' = TRUE /\ devExists' = TRUE
              /\ pc' = "found"
              /\ UNCHANGED <<status, error, out>>
         ELSE /\ status' = IF entry = "init" THEN "exit1" ELSE "raised"
              /\ error' = "DeviceNotFoundError"
              /\ out' = "Port given: " \o portArg
              /\ pc' = "exit"
              /\ UNCHANGED <<dev, devOpen, devExists>>
    /\ UNCHANGED <<entry, gate, cli, hasHabs, target, plan, idx, slept>>
    /\ UNCHANGED <<saved, fwExists, hsLog, acks>>
    /\ UNCHANGED <<opts, fwFile, argvLog, disk, rets>>
    /\ UNCHANGED <<hsVars, toolVars, sysVars>>

\* one iteration of `for _port in comports()`: _device.open(), `continue`
\* on IOError, else device = _device and break
FindDeviceScan ==
    /\ entry \in FindCommands
    /\ pc = "find"
    /\ portArg = ""
    /\ Len(Tried) < Len(ports)
    /\ LET p == ports[Len(Tried) + 1]
       IN  /\ calls' = Append(calls, <<"open", p>>)
           /\ IF p \in openable
                THEN /\ dev' = FoundDevice(p)
                     /\ devOpen' = TRUE /\ devExists' = TRUE
                ELSE UNCHANGED <<dev, devOpen, devExists>>
           /\ pc' = IF ScanBreaks(p \in openable) THEN "found" ELSE "find"
    /\ UNCHANGED <<entry, gate, status, error, out>>
    /\ UNCHANGED <<cli, hasHabs, target, plan, idx, slept>>
    /\ UNCHANGED <<saved, fwExists, hsLog, acks>>
    /\ UNCHANGED <<opts, fwFile, argvLog, disk, rets>>
    /\ UNCHANGED <<hsVars, toolVars, sysVars>>

\* if not device: raise DeviceNotFoundError(); return device
FindDeviceEnd ==
    /\ entry \in FindCommands
    /\ \/ pc = "found"
       \/ pc = "find" /\ portArg = "" /\ Len(Tried) = Len(ports)
    /\ IF devExists
         THEN /\ status' = "returned"
              /\ rets' = Append(rets, dev.args.port)
              /\ UNCHANGED <<error, out>>
         ELSE /\ status' = IF entry = "init" THEN "exit1" ELSE "raised"
              /\ error' = "DeviceNotFoundError"
              /\ out' = ""
              /\ UNCHANGED rets
    /\ pc' = "exit"
    /\ UNCHANGED <<entry, gate>>
    /\ UNCHANGED devVars
    /\ UNCHANGED flashVars
    /\ UNCHANGED <<opts, fwFile, argvLog, disk, calls>>
    /\ UNCHANGED <<hsVars, toolVars, sysVars>>

(***************************************************************************)
(* init: InitCommand.handle and _setup, and _setup_cache called on its own *)
(* MaxCalls times.                                                         *)
(***************************************************************************)
\* if not self.confirm(msg, False): raise ValueError; handle: return 1
SetupConfirm(yes) ==
    /\ entry = "init"
    /\ pc = "battery"
    /\ IF yes
         THEN /\ battery' = "confirmed"
              /\ pc' = "cache"
              /\ UNCHANGED <<status, error, cache>>
         ELSE /\ battery' = "declined"
              /\ cache' = DeclinedCache(cache)
              /\ status' = "returned1"
              /\ error' = "ValueError"
              /\ pc' = "exit"
    /\ UNCHANGED <<entry, gate, out>>
    /\ UNCHANGED devVars
    /\ UNCHANGED flashVars
    /\ UNCHANGED fileVars
    /\ UNCHANGED <<hsVars, toolVars>>
    /\ UNCHANGED <<ports, openable, portArg, cfgTargets>>

\* self._setup_cache()
SetupCacheStep ==
    /\ entry \in {"init", "setup_cache"}
    /\ pc = "cache"
    /\ cache' = SetupCache(cache)
    /\ calls' = Append(calls, <<"mkdir">>)
    /\ IF entry = "init"
         THEN /\ pc' = "keys"
              /\ UNCHANGED <<status, rets>>
         ELSE /\ rets' = Append(rets, "None")
              /\ pc' = IF Len(rets) + 1 < MaxCalls THEN "cache" ELSE "exit"
              /\ status' = IF Len(rets) + 1 < MaxCalls THEN status
                           ELSE "returned"
    /\ UNCHANGED <<entry, gate, error, out>>
    /\ UNCHANGED devVars
    /\ UNCHANGED flashVars
    /\ UNCHANGED <<opts, fwFile, argvLog, disk>>
    /\ UNCHANGED <<hsVars, toolVars>>
    /\ UNCHANGED <<ports, openable, portArg, battery, cfgTargets>>

\* self._check_keys(): the connection file is downloaded; an error is
\* printed and the run exits with 1
CheckKeys(ok) ==
    /\ entry = "init"
    /\ pc = "keys"
    /\ calls' = Append(calls, <<"check_keys">>)
    /\ IF ok
         THEN /\ pc' = "tools" /\ UNCHANGED status
         ELSE /\ pc' = "exit" /\ status' = "exit1"
    /\ UNCHANGED <<entry, gate, error, out>>
    /\ UNCHANGED devVars
    /\ UNCHANGED flashVars
    /\ UNCHANGED <<opts, fwFile, argvLog, disk, rets>>
    /\ UNCHANGED <<hsVars, toolVars, sysVars>>

\* self._check_tools(): a tool missing from cfg.toolsDir is downloaded; an
\* error is printed and the run exits with 1.  Then `if not self._device`
CheckTools(ok) ==
    /\ entry = "init"
    /\ pc = "tools"
    /\ calls' = Append(calls, <<"check_tools">>)
    /\ IF ok
         THEN /\ cache' = cache \cup {CachedTool}
              /\ pc' = "find" /\ UNCHANGED status
         ELSE /\ pc' = "exit" /\ status' = "exit1"
              /\ UNCHANGED cache
    /\ UNCHANGED <<entry, gate, error, out>>
    /\ UNCHANGED devVars
    /\ UNCHANGED flashVars
    /\ UNCHANGED <<opts, fwFile, argvLog, disk, rets>>
    /\ UNCHANGED <<hsVars, toolVars>>
    /\ UNCHANGED <<ports, openable, portArg, battery, cfgTargets>>

(***************************************************************************)
(* The plan on its own: FlashCommand._targets and                          *)
(* FlashMCUCommand._get_targets, called MaxCalls times in one process, each *)
(* call with its own target argument and device.  cli and hasHabs hold the *)
(* arguments of the last call, rets the plans returned.                    *)
(***************************************************************************)
PlanCommands == {"targets", "get_targets"}

\* the target arguments given: the four microcontrollers, "all", and a
\* target that is none of them
TargetArgs == McuTargets \cup {"all", "bt"}

\* FlashCommand._targets
ComputeTargets(arg, force, habs) ==
    /\ entry = "targets"
    /\ pc = "plan"
    /\ Len(rets) < MaxCalls
    /\ cli' = [target |-> arg, forceHabs |-> force, firmware |-> FALSE]
    /\ hasHabs' = habs
    /\ plan' = Targets(arg, force, habs)
    /\ cfgTargets' = TargetsConfig(arg, force, habs)
    /\ rets' = Append(rets, plan')
    /\ pc' = IF Len(rets) + 1 < MaxCalls THEN "plan" ELSE "exit"
    /\ status' = IF Len(rets) + 1 < MaxCalls THEN status ELSE "returned"
    /\ UNCHANGED <<entry, gate, error, out>>
    /\ UNCHANGED <<devOpen, devExists, target, idx, slept>>
    /\ UNCHANGED flashVars
    /\ UNCHANGED <<opts, fwFile, argvLog, disk, calls>>
    /\ UNCHANGED <<hsVars, toolVars>>
    /\ UNCHANGED <<ports, openable, portArg, battery, cache>>

\* FlashMCUCommand._get_targets: UnknownMCUError when the assertion fails
GetTargets(arg, habs) ==
    /\ entry = "get_targets"
    /\ pc = "plan"
    /\ Len(rets) < MaxCalls
    /\ cli' = [target |-> arg, forceHabs |-> FALSE, firmware |-> FALSE]
    /\ hasHabs' = habs
    /\ IF McuTargetKnown(arg)
         THEN /\ plan' = McuGetTargets(arg, habs)
              /\ cfgTargets' = IF arg = "all" THEN McuGetTargets(arg, habs)
                               ELSE cfgTargets
              /\ rets' = Append(rets, plan')
              /\ pc' = IF Len(rets) + 1 < MaxCalls THEN "plan" ELSE "exit"
              /\ status' = IF Len(rets) + 1 < MaxCalls THEN status
                           ELSE "returned"
              /\ UNCHANGED error
         ELSE /\ status' = "raised" /\ error' = "UnknownMCUError"
              /\ pc' = "exit"
              /\ UNCHANGED <<plan, cfgTargets, rets>>
    /\ UNCHANGED <<entry, gate, out>>
    /\ UNCHANGED <<devOpen, devExists, target, idx, slept>>
    /\ UNCHANGED flashVars
    /\ UNCHANGED <<opts, fwFile, argvLog, disk, calls>>
    /\ UNCHANGED <<hsVars, toolVars>>
    /\ UNCHANGED <<ports, openable, portArg, battery, cache>>

(***************************************************************************)
(* The program                                                             *)
(***************************************************************************)
Entries ==
    {"set_tunnel_mode"} \cup ToolCommands \cup PopenCommands
        \cup ResolveCommands \cup FindCommands \cup {"setup_cache"}
        \cup PlanCommands

\* the port enumerations and port arguments of the runs of find_device
AllPorts == {"COM3", "COM7", "COM12"}
PortLists ==
    {<<>>, <<"COM3">>, <<"COM3", "COM12">>, <<"COM12", "COM3", "COM7">>,
     <<"COM7", "COM12", "COM3">>}

\* the cache at the start of an entry point
CachesFor(e) ==
    IF e = "setup_cache" THEN CacheStates
    ELSE IF e = "init"
      THEN {{}, {cacheDir, firmwareDir, toolsDir, CachedFirmware}}
    ELSE {{}}

NoCli == [target |-> "", forceHabs |-> FALSE, firmware |-> FALSE]

\* the command lines of an entry point
CliFor(e) ==
    IF e = "flash"
      THEN [target : McuTargets \cup {"all"}, forceHabs : BOOLEAN,
            firmware : BOOLEAN]
    ELSE IF e = "microcontroller"
      THEN [target : McuTargets, forceHabs : {FALSE}, firmware : BOOLEAN]
    ELSE {NoCli}

\* the device and the naming arguments of an entry point's runs: the run
\* of the specification's end-to-end scenario for the commands
OptsFor(e) ==
    IF e = "flash"
      THEN {OptsOf(d, "", "9.1.0", "") :
               d \in {x \in Devices : x.name = "actpack"}}
    ELSE IF e = "microcontroller"
      THEN {OptsOf(d, "4.1B", "9.1.0", "") :
               d \in {x \in Devices : x.name = "actpack"}}
    ELSE IF e = "get_firmware"
      THEN {OptsOf(d, hw, "9.1.0", "") : d \in Devices, hw \in {"", "4.1"}}
    ELSE IF e = "build_firmware_file"
      THEN {OptsOf(d, hw, to, side) :
               d \in Devices, hw \in {"", "4.1B"}, to \in {"", "9.1.0"},
               side \in {"", "left"}}
    ELSE IF e = "download_firmware"
      THEN {OptsOf(d, "4.1B", "9.1.0", "") : d \in Devices}
    ELSE {NoOpts}

\* the resolution computes a local destination from its arguments
Resolvable(e, o, t) == e = "build_firmware_file" => ~McuIncomplete(o, t)

\* the local destination of a resolution called on its own
ResolveDest(e, o, t) ==
    IF e = "get_firmware" THEN Join(firmwareDir, FlashFirmwareFile(o, t))
    ELSE IF e = "build_firmware_file"
      THEN Join(firmwareDir, McuFirmwareFile(o, t))
    ELSE DownloadDest(o, t)

\* the firmware files a run of the entry point can ask for
FilesFor(e, o) ==
    IF e = "flash"
      THEN {Join(firmwareDir, FlashFirmwareFile(o, t)) : t \in McuTargets}
    ELSE IF e = "microcontroller"
      THEN {Join(firmwareDir, McuFirmwareFile(o, t)) : t \in McuTargets}
    ELSE {}

\* the local disk at the start: nothing cached, or everything the run needs
DisksFor(e, o, c) ==
    IF e = "flash" \/ e = "microcontroller"
      THEN IF c.firmware THEN {{}, {GivenFile}} ELSE {{}, FilesFor(e, o)}
    ELSE {{}}

Init ==
    /\ entry \in Entries
    /\ pc = IF entry \in ToolCommands THEN "prep"
            ELSE IF entry \in PopenCommands THEN "setup"
            ELSE IF entry \in ResolveCommands THEN "resolve"
            ELSE IF entry = "find_device" THEN "find"
            ELSE IF entry = "init" THEN "battery"
            ELSE IF entry = "setup_cache" THEN "cache"
            ELSE IF entry \in PlanCommands THEN "plan" ELSE "call"
    /\ status = "running"
    /\ error = ""
    /\ out = ""
    /\ variant \in (IF entry = "set_tunnel_mode" THEN Variants
                    ELSE {"system_utils"})
    /\ hpc = IF entry = "set_tunnel_mode" THEN "start" ELSE "idle"
    /\ T0 \in (IF entry = "set_tunnel_mode"
                 THEN (1..MaxTimeout) \cup {CallerTimeout} ELSE {0})
    /\ timeout = T0
    /\ state = FX_FAILURE
    /\ hsRet = "none"
    /\ hdev = "none"
    /\ sends = 0
    /\ queries = 0
    /\ waits = 0
    /\ firstSuccess = 0
    /\ lastSend = "none"
    /\ lastQuery = "none"
    /\ cli \in CliFor(entry)
    /\ hasHabs \in (IF entry = "flash" THEN BOOLEAN ELSE {FALSE})
    /\ devOpen = FALSE
    /\ devExists = FALSE
    /\ target \in (IF entry \in ResolveCommands THEN McuTargets ELSE {""})
    /\ plan = <<>>
    /\ idx = 0
    /\ slept = NoSleep
    /\ dev = NoDevice
    /\ saved = NoArgs
    /\ fwExists = FALSE
    /\ hsLog = <<>>
    /\ acks = 0
    /\ opts \in OptsFor(entry)
    /\ fwFile = ""
    /\ argvLog = <<>>
    /\ disk \in (IF entry \in ResolveCommands
                   THEN IF Resolvable(entry, opts, target)
                          THEN {{}, {ResolveDest(entry, opts, target)}}
                          ELSE {{}}
                   ELSE DisksFor(entry, opts, cli))
    /\ calls = <<>>
    /\ rets = <<>>
    /\ ports \in (IF entry \in FindCommands THEN PortLists ELSE {<<>>})
    /\ openable \in (IF entry \in FindCommands THEN SUBSET AllPorts ELSE {{}})
    /\ portArg \in (IF entry \in FindCommands THEN {"", "COM3", "COM7"}
                    ELSE {""})
    /\ battery = "unasked"
    /\ gate = "unasked"
    /\ cache \in CachesFor(entry)
    /\ cfgTargets = mcuTargets
    /\ procRunning = FALSE
    /\ attempt = 0
    /\ procBound = FALSE
    /\ procRc = 0
    /\ invocations = 0
    /\ kills = 0
    /\ toolLog = <<>>
    /\ toolResult = "none"

Next ==
    \/ \E o \in OpenOutcomes : HsOpen(o)
    \/ \E so \in SendOutcomes \cup {"none"}, q \in QueryOutcomes :
           HsIterate(so, q)
    \/ HsFinish
    \/ \E o \in {"ok", "declined", "noDevice", "noFirmware"},
          a \in DeviceArgs : CmdPrep(o, a)
    \/ \E confirmed \in BOOLEAN, ok \in BOOLEAN : CmdSetTunnel(confirmed, ok)
    \/ CmdPreFlash
    \/ ToolSpawn
    \/ \E rc \in 0..MaxRc : ToolExit(rc)
    \/ ToolTimeout
    \/ ToolAfter
    \/ \E ack \in BOOLEAN : CmdPostFlash(ack)
    \/ \E o \in {"ok", "declined", "failed"}, a \in DeviceArgs :
           PopenSetup(o, a)
    \/ \E o \in {"ok", "absent", "clientError", "assertion"} :
           FlashGetFirmware(o)
    \/ \E ok \in BOOLEAN : PopenSetTunnel(ok)
    \/ FlashRelease
    \/ PopenSpawn
    \/ \E rc \in 0..MaxRc : PopenExit(rc)
    \/ PopenTimeout
    \/ PopenAck
    \/ \E o \in DownloadOutcomes : GetFirmware(o)
    \/ \E o \in DownloadOutcomes : BuildFirmwareFile(o)
    \/ \E o \in DownloadOutcomes : DownloadFirmware(o)
    \/ FindDeviceByPort
    \/ FindDeviceScan
    \/ FindDeviceEnd
    \/ \E yes \in BOOLEAN : SetupConfirm(yes)
    \/ SetupCacheStep
    \/ \E ok \in BOOLEAN : CheckKeys(ok)
    \/ \E ok \in BOOLEAN : CheckTools(ok)
    \/ \E arg \in TargetArgs, force \in BOOLEAN, habs \in BOOLEAN :
           ComputeTargets(arg, force, habs)
    \/ \E arg \in TargetArgs, habs \in BOOLEAN : GetTargets(arg, habs)

Spec == Init /\ [][Next]_vars

(***************************************************************************)
(* Progress of a run of FlashCommand.handle (and of the configure          *)
(* commands, which share its steps).  handle is sequential code: once      *)
(* started, each statement is executed when the previous one has finished. *)
(* The steps that wait for something outside the program are the prompt    *)
(* (the operator answers: PopenAck) and proc.communicate(timeout=360) (the *)
(* tool exits or the timeout expires: PopenExit, PopenTimeout); the        *)
(* handshake returns within its timeout.                                   *)
(***************************************************************************)
HandleStep_NoAnswer ==
    \/ \E o \in {"ok", "declined", "failed"}, a \in DeviceArgs :
           PopenSetup(o, a)
    \/ \E o \in {"ok", "absent", "clientError", "assertion"} :
           FlashGetFirmware(o)
    \/ \E ok \in BOOLEAN : PopenSetTunnel(ok)
    \/ FlashRelease
    \/ PopenSpawn
    \/ \E rc \in 0..MaxRc : PopenExit(rc)
    \/ PopenTimeout

\* one step of handle: flash.py 79-169
HandleStep ==
    \/ \E o \in {"ok", "declined", "failed"}, a \in DeviceArgs :
           PopenSetup(o, a)
    \/ \E o \in {"ok", "absent", "clientError", "assertion"} :
           FlashGetFirmware(o)
    \/ \E ok \in BOOLEAN : PopenSetTunnel(ok)
    \/ FlashRelease
    \/ PopenSpawn
    \/ \E rc \in 0..MaxRc : PopenExit(rc)
    \/ PopenTimeout
    \/ PopenAck

\* the runs in which handle, once called, keeps executing
LiveSpec == Init /\ [][Next]_vars /\ WF_vars(HandleStep)

(***************************************************************************)
(* Properties                                                              *)
(***************************************************************************)
\* every subprocess of the log exited with a non-zero code, none timed out
AllFailed(log) ==
    \A i \in 1..Len(log) : ~log[i].timedOut /\ log[i].rc # 0

\* the k-th subprocess is the first to exit 0, the earlier ones exited
\* non-zero without timing out
FirstSuccessAt(log, k) ==
    /\ k \in 1..Len(log)
    /\ ~log[k].timedOut /\ log[k].rc = 0
    /\ \A j \in 1..(k - 1) : ~log[j].timedOut /\ log[j].rc # 0

\* C1: when the vendor tool exits non-zero on every attempt,
\* _call_flash_tool runs it exactly 5 times, never 6, and then ends in the
\* flash-failed outcome (prints the failure, exits with status 1), not in
\* any other error.
C1_RetryExhaustionFails ==
    (entry \in ToolCommands /\ toolLog # <<>> /\ AllFailed(toolLog)) =>
        /\ invocations <= 5
        /\ (pc = "afterTool" => invocations = 5)
        /\ (pc = "exit" =>
              /\ invocations = 5
              /\ toolResult = "exit1"
              /\ status = "exit1"
              /\ error = "")

\* C2: for every k in 1..5, when the first k-1 attempts exit non-zero and
\* the k-th exits 0, _call_flash_tool returns normally after exactly k
\* invocations and runs nothing after the successful one.
C2_RetrySuccess ==
    entry \in ToolCommands =>
        \A k \in 1..Len(toolLog) :
            FirstSuccessAt(toolLog, k) =>
                /\ k <= 5
                /\ Len(toolLog) = k
                /\ invocations = k
                /\ ~procRunning
                /\ toolResult \in {"none", "returned"}
                /\ (toolResult = "none" => pc = "afterTool")
                /\ (toolResult = "returned" => pc \in {"postflash", "exit"})

\* C2 witness: the fifth attempt is the first to succeed and the call has
\* returned
C2_Witness ==
    /\ entry = "bt121"
    /\ FirstSuccessAt(toolLog, 5)
    /\ toolResult = "returned"

\* C3: a vendor tool attempt that exceeds the timeout is killed, is the
\* last attempt made whatever retry budget remains, and ends the run with
\* a non-zero exit status.
C3_TimeoutFatal ==
    \A k \in 1..Len(toolLog) :
        toolLog[k].timedOut =>
            /\ k = Len(toolLog)
            /\ invocations = Len(toolLog)
            /\ kills = 1
            /\ ~procRunning
            /\ pc = "exit"
            /\ status = "exit1"

\* C3 witness: the second of five attempts timed out
C3_Witness ==
    /\ entry = "microcontroller"
    /\ Len(toolLog) = 2
    /\ toolLog[2].timedOut
    /\ attempt = 1

\* C4: for every timeout T > 0, when no state query returns the activated
\* value, set_tunnel_mode returns False after exactly T wait-steps and
\* exactly T state queries.
C4_HandshakeTimeout ==
    (entry = "set_tunnel_mode" /\ hpc = "returned" /\ firstSuccess = 0) =>
        /\ hsRet = "False"
        /\ waits = T0
        /\ queries = T0
        /\ timeout = 0

\* C4 witness: a handshake with timeout 7 returned without ever seeing the
\* activated value
C4_Witness ==
    /\ hpc = "returned"
    /\ firstSuccess = 0
    /\ T0 = 7
    /\ lastQuery = "IOError"

\* C5: when the k-th state query (1 <= k <= T) is the first to return the
\* activated value, set_tunnel_mode returns True after exactly k wait-steps
\* and sends no activation command and makes no state query after it; this
\* includes k = T.
C5_HandshakeSuccess ==
    /\ [](firstSuccess > 0 =>
            /\ firstSuccess <= T0
            /\ waits = firstSuccess
            /\ queries = firstSuccess
            /\ hpc \in {"after", "returned"}
            /\ (hpc = "returned" => hsRet = "True"))
    /\ [][firstSuccess > 0 => UNCHANGED <<sends, queries, waits>>]_vars

\* C5 witness: the confirming query is the one made as the remaining
\* timeout reaches 0, and the call returned True
C5_Witness ==
    /\ hpc = "returned"
    /\ hsRet = "True"
    /\ firstSuccess = T0
    /\ T0 = 6

\* C6: in every iteration of the loop the activation command is sent if and
\* only if the remaining timeout at the start of the iteration is a
\* multiple of 5.
C6_ResendDiscipline ==
    [][waits' # waits =>
         /\ (timeout % 5 = 0 => sends' = sends + 1 /\ lastSend' # "none")
         /\ (timeout % 5 # 0 => sends' = sends /\ lastSend' = "none")]_vars

\* C6 witness: a handshake that has sent twice (at 10 and at 5) and has
\* gone through iterations that sent nothing
C6_Witness ==
    /\ hpc = "loop"
    /\ sends = 2
    /\ timeout = 3
    /\ lastSend = "none"

\* C7: an IOError from the activation send or from the state query does not
\* end the loop: the remaining timeout decreases by one wait-step, the last
\* known state is kept, and polling goes on until confirmation or timeout.
C7_TransportErrorsSuppressed ==
    [][(waits' # waits /\ lastQuery' # "ValueError"
          /\ (lastSend' = "IOError" \/ lastQuery' = "IOError")) =>
         /\ timeout' = timeout - 1
         /\ (lastQuery' = "IOError" => state' = state)
         /\ hpc' \in {"loop", "after"}
         /\ (hpc' = "after" <=> (timeout' = 0 \/ state' = FX_SUCCESS))
         /\ status' = "running"]_vars

\* C7 witness: an iteration whose send and query both raised IOError, after
\* which polling continues
C7_Witness ==
    /\ hpc = "loop"
    /\ lastSend = "IOError"
    /\ lastQuery = "IOError"
    /\ timeout > 0

\* C8: a ValueError from the state query aborts set_tunnel_mode at once by
\* raising: no activation command, sleep or state query follows and no
\* boolean is returned.
C8_ProtocolErrorFatal ==
    /\ [](lastQuery = "ValueError" =>
            /\ hpc = "raised"
            /\ status = "raised"
            /\ error \in {"ValueError", "RuntimeError"}
            /\ hsRet = "none")
    /\ [][lastQuery = "ValueError" =>
            UNCHANGED <<sends, queries, waits, hsRet, hpc>>]_vars

\* C8 witness: the third query of a handshake with time left raised
\* ValueError
C8_Witness ==
    /\ lastQuery = "ValueError"
    /\ queries = 3
    /\ timeout > 0
    /\ hpc = "raised"

\* C9: in FlashCommand.handle and FlashMicrocontrollerCommand._flash, for
\* every target in {habs, ex, re, mn}, the serial connection is closed
\* before the vendor tool is spawned and is never open while it runs.
C9_SerialExclusiveMcu ==
    (entry \in {"flash", "microcontroller"} /\ (procRunning \/ pc = "popen"
                                                 \/ pc = "tool")) =>
        /\ target \in McuTargets
        /\ ~devOpen

\* C9 witness: the tool runs for the second target of an aggregate plan
C9_Witness ==
    /\ entry = "flash"
    /\ procRunning
    /\ idx = 2
    /\ target = "re"

\* C10: in every command that flashes or configures bt121 or xbee, the
\* serial connection the command holds is closed before the vendor tool is
\* spawned.
C10_SerialExclusiveRadio ==
    (entry \in {"bt121", "xbee", "configure-bt", "configure-xbee"}
       /\ procRunning) => ~devOpen

(***************************************************************************)
(* The flash plan (FlashCommand._targets)                                  *)
(***************************************************************************)
\* the loop header of FlashCommand.handle has evaluated self._targets
Planned == entry = "flash" /\ idx >= 1

\* C11 (as stated): requesting "all" yields exactly [ex, re, mn] on a device
\* without a Habs board and exactly [habs, ex, re, mn] on a device with one.
C11_AggregatePlan ==
    (Planned /\ cli.target = "all") =>
        plan = IF hasHabs THEN <<"habs", "ex", "re", "mn">>
               ELSE <<"ex", "re", "mn">>

\* C11 (amended): requesting "all" yields exactly [habs, ex, re, mn] on a
\* device with a Habs board and, when force-habs is not set, exactly
\* [ex, re, mn] on a device without one.
C11_AggregatePlanUnforced ==
    (Planned /\ cli.target = "all") =>
        /\ hasHabs => plan = <<"habs", "ex", "re", "mn">>
        /\ (~hasHabs /\ ~cli.forceHabs) => plan = <<"ex", "re", "mn">>

C11_Witness ==
    /\ Planned /\ cli.target = "all" /\ ~hasHabs /\ ~cli.forceHabs
    /\ pc = "firmware" /\ plan = <<"ex", "re", "mn">>

\* C12: a single explicit target t of mn, ex, re, habs yields the plan [t]
\* whatever the device reports; "habs" on a device without a Habs board
\* yields [habs], not an empty plan.
C12_ExplicitTargetKept ==
    (Planned /\ cli.target \in McuTargets) => plan = <<cli.target>>

\* C13: with force-habs set, "habs" is never removed from the plan, whether
\* or not the device reports a Habs board; without it, "habs" is removed
\* from the aggregate plan exactly when the device reports no Habs board.
C13_ForceHabs ==
    Planned =>
        /\ cli.forceHabs =>
              plan = IF cli.target = "all" THEN <<"habs", "ex", "re", "mn">>
                     ELSE <<cli.target>>
        /\ (~cli.forceHabs /\ cli.target = "all") =>
              /\ Contains(plan, "habs") <=> hasHabs
              /\ Remove(plan, "habs") = <<"ex", "re", "mn">>

C13_Witness ==
    /\ Planned /\ cli.target = "all" /\ cli.forceHabs /\ ~hasHabs
    /\ pc = "firmware" /\ Contains(plan, "habs")

(***************************************************************************)
(* One run of FlashCommand.handle over its plan                            *)
(***************************************************************************)
\* C14: in FlashCommand.handle, when set_tunnel_mode returns False for a
\* target the run exits with a non-zero status, the vendor tool is not
\* invoked for that target, and no later target is resolved, handshaken or
\* flashed: the failed handshake is the run's last step.
C14_HandshakeFailureAborts ==
    /\ [](entry = "flash" =>
            \A i \in 1..Len(hsLog) :
                ~hsLog[i] =>
                    /\ i = Len(hsLog) /\ idx = i
                    /\ pc = "exit" /\ status = "exit1"
                    /\ invocations = i - 1 /\ ~procRunning)
    /\ [][(entry = "flash" /\ hsLog # <<>> /\ ~hsLog[Len(hsLog)]) =>
              UNCHANGED vars]_vars

C14_Witness ==
    /\ entry = "flash" /\ Len(hsLog) = 2 /\ hsLog[1] /\ ~hsLog[2]
    /\ idx = 2 /\ Len(plan) > 2 /\ invocations = 1 /\ status = "exit1"

\* C15: in FlashCommand.handle a target proceeds to the power-cycle prompt
\* only if the vendor tool exited with code zero; every non-zero exit code,
\* not only 1, aborts the run.
C15_NonZeroExitAborts ==
    /\ (entry = "flash" /\ pc = "ack") => procRc = 0
    /\ (entry = "flash" /\ toolLog # <<>> /\ ~procRunning
          /\ toolLog[Len(toolLog)].rc # 0) =>
           (pc = "exit" /\ status = "exit1" /\ acks = Len(toolLog) - 1)

\* C16: in FlashCommand.handle, when the firmware artifact of a target cannot
\* be produced, the run aborts with a non-zero outcome before any activation
\* command is sent for that target, and no later target is processed.
C16_FirmwareFailureAborts ==
    (Planned /\ plan # <<>> /\ pc # "firmware" /\ ~fwExists) =>
        /\ pc = "exit" /\ status \in {"exit1", "raised"}
        /\ Len(hsLog) = idx - 1
        /\ invocations = idx - 1

\* C17: the handshake of target N+1 does not begin until the vendor tool of
\* target N has exited successfully and the operator has acknowledged the
\* power-cycle prompt of target N.
C17_CrossTargetOrdering ==
    (entry = "flash" /\ hsLog # <<>>) =>
        /\ acks >= Len(hsLog) - 1
        /\ Len(toolLog) >= Len(hsLog) - 1
        /\ \A j \in 1..(Len(hsLog) - 1) : toolLog[j] = Exited(0)

\* the state of the plan's i-th target, read off the position of handle:
\* targets before the current one are done, those after it are pending
TargetState(i) ==
    IF i < idx THEN "Done"
    ELSE IF i > idx THEN "Pending"
    ELSE IF pc = "firmware" THEN "Pending"
    ELSE IF pc = "tunnel" THEN "ArtifactResolved"
    ELSE IF pc \in {"release", "popen"} THEN "BootloaderActive"
    ELSE IF pc = "communicate" THEN "Flashing"
    ELSE IF pc = "ack" THEN "AwaitingPowerCycle"
    ELSE IF status = "returned" THEN "Done"
    ELSE "Failed"

TargetStateOrder ==
    <<"Pending", "ArtifactResolved", "BootloaderActive", "Flashing",
      "AwaitingPowerCycle", "Done">>

\* s2 is the state after s1 in the order of the target state machine
FollowsInOrder(s1, s2) ==
    \E k \in 1..(Len(TargetStateOrder) - 1) :
        TargetStateOrder[k] = s1 /\ TargetStateOrder[k + 1] = s2

\* C18: every target of the plan moves Pending -> ArtifactResolved ->
\* BootloaderActive -> Flashing -> AwaitingPowerCycle -> Done, one state at
\* a time, never skipping or repeating one, or from any of them to Failed;
\* Failed is terminal, and once a target is Failed no target changes state.
C18_TargetStateMachine ==
    [][(Planned /\ Planned') =>
          /\ \A i \in 1..Len(plan) :
                \/ TargetState(i)' = TargetState(i)
                \/ FollowsInOrder(TargetState(i), TargetState(i)')
                \/ TargetState(i) # "Failed" /\ TargetState(i)' = "Failed"
          /\ (\E j \in 1..Len(plan) : TargetState(j) = "Failed") =>
                \A i \in 1..Len(plan) : TargetState(i)' = TargetState(i)
          /\ plan' = plan]_vars

C18_Witness ==
    /\ Planned /\ Len(plan) >= 3
    /\ TargetState(1) = "Done" /\ TargetState(2) = "Failed"
    /\ TargetState(3) = "Pending"

\* C19: when the target is "mn", the connection object is discarded after it
\* is closed and before the vendor tool is spawned; a new object is created
\* with the port, baud rate and library version of the discarded one and is
\* opened before any later handshake; the discarded object is never used
\* again: while no object exists nothing is opened, closed or handshaken.
C19_MnReconnect ==
    /\ []((entry = "flash" /\ target = "mn"
             /\ pc \in {"popen", "communicate", "ack"}) =>
            (~devExists /\ ~devOpen /\ saved = dev.args))
    /\ [][(entry = "flash" /\ dev.id >= 1 /\ ~devExists /\ devExists') =>
              /\ dev'.id = dev.id + 1
              /\ dev'.args = dev.args
              /\ devOpen']_vars
    /\ [][(entry = "flash" /\ dev.id >= 1 /\ ~devExists /\ ~devExists') =>
              (devOpen' = devOpen /\ hsLog' = hsLog /\ dev' = dev)]_vars
    /\ [][(entry = "flash" /\ hsLog' # hsLog) => (devExists /\ devOpen)]_vars

C19_Witness ==
    /\ entry = "flash" /\ target = "mn" /\ status = "returned"
    /\ dev.id = 2 /\ devExists /\ devOpen /\ dev.args.port = "COM12"

\* the sleeps of the current target's step are all done
DelaysDone ==
    \/ entry = "microcontroller" /\ pc = "exit" /\ status = "returned"
    \/ entry = "flash" /\ pc = "ack"

C21_InvokerFrame ==
    /\ [](entry \in ToolCommands =>
            \A i \in 1..Len(argvLog) : argvLog[i] = argvLog[1])
    /\ [][(entry \in ToolCommands /\ pc \in {"tool", "afterTool"}) =>
              /\ devOpen' = devOpen /\ devExists' = devExists /\ dev' = dev
              /\ hsLog' = hsLog
              /\ UNCHANGED hsVars]_vars

C21_Witness ==
    /\ entry = "microcontroller" /\ target = "habs" /\ Len(argvLog) = 5
    /\ argvLog[5] = argvLog[1] /\ argvLog[1][4] = "12" /\ ~devOpen

\* C22: resolution is idempotent with a cache hit.  A call that finds its
\* destination on disk returns it without asking the artifact store; all
\* the calls for one tuple return the same path; and once a call has
\* returned, a later call for the same tuple downloads nothing.
C22_ResolutionIdempotent ==
    [][(entry \in {"get_firmware", "build_firmware_file"} /\ pc = "resolve")
          => /\ ResolveDest(entry, opts, target) \in disk
                 => /\ calls' = calls
                    /\ rets' = Append(rets, ResolveDest(entry, opts, target))
             /\ \A i \in 1..Len(rets'), j \in 1..Len(rets') :
                    rets'[i] = rets'[j]
             /\ Len(rets) >= 1 => calls' = calls]_vars

\* C23: every path resolution has returned is a file on the disk.
C23_ReturnedPathExists ==
    entry \in ResolveCommands => \A i \in 1..Len(rets) : rets[i] \in disk

\* the extension the naming rule gives a target
ExtensionOf(t) ==
    IF t = "habs" THEN "hex" ELSE IF t = "mn" THEN "dfu" ELSE "cyacd"

\* C24: the file name of a target is
\* {deviceType}_rigid-{hardwareVersion}_{target}_firmware-{firmwareVersion}
\* .{ext}, with ext hex for habs, cyacd for ex and re, dfu for mn; flashing
\* actpack, 4.1B to 9.1.0 resolves the three names of the plan ex, re, mn.
C24_CanonicalName ==
    /\ [][(entry = "get_firmware" /\ Len(rets') > Len(rets)) =>
             rets'[Len(rets')] =
                 firmwareDir \o "/" \o opts.name \o "_rigid-"
                     \o (IF opts.hardware # "" THEN opts.hardware
                         ELSE opts.rigid)
                     \o "_" \o target \o "_firmware-" \o opts.to \o "."
                     \o ExtensionOf(target)]_vars
    /\ [][(entry = "flash" /\ pc = "firmware" /\ ~cli.firmware
             /\ pc' = "tunnel") =>
             fwFile' =
                 IF target = "habs"
                   THEN "firmware/actpack_rigid-4.1B_habs_firmware-9.1.0.hex"
                 ELSE IF target = "ex"
                   THEN "firmware/actpack_rigid-4.1B_ex_firmware-9.1.0.cyacd"
                 ELSE IF target = "re"
                   THEN "firmware/actpack_rigid-4.1B_re_firmware-9.1.0.cyacd"
                 ELSE "firmware/actpack_rigid-4.1B_mn_firmware-9.1.0.dfu"]_vars

\* the plan ex, re, mn has reached mn and resolved its file
C24_Witness ==
    /\ entry = "flash" /\ plan = <<"ex", "re", "mn">> /\ target = "mn"
    /\ ~cli.firmware
    /\ fwFile = "firmware/actpack_rigid-4.1B_mn_firmware-9.1.0.dfu"

\* the file name carries a side part
HasSidePart(f) ==
    \E i \in 1..(Len(f) - 5) : SubSeq(f, i, i + 5) = "_side-"

\* C25: a resolved name carries _side-{side} exactly when the target is mn
\* and the device is chiral.
C25_SideSuffix ==
    entry \in {"get_firmware", "build_firmware_file"} =>
        \A i \in 1..Len(rets) :
            HasSidePart(rets[i]) <=> (target = "mn" /\ opts.chiral)

\* the part of a path after its last separator
RECURSIVE FileNameFrom(_, _)
FileNameFrom(p, i) ==
    IF i = 0 \/ SubSeq(p, i, i) = "/" THEN SubSeq(p, i + 1, Len(p))
    ELSE FileNameFrom(p, i - 1)

FileName(p) == FileNameFrom(p, Len(p))

\* C26: every request to the artifact store asks for the key
\* {firmwareVersion}/{deviceType}/{hardwareVersion}/{fileName}.
C26_ObjectKey ==
    \A i \in 1..Len(calls) :
        calls[i][1] = "download" =>
          calls[i][2] =
            opts.to \o "/" \o opts.name \o "/"
                \o (IF opts.hardware # "" THEN opts.hardware ELSE opts.rigid)
                \o "/" \o FileName(calls[i][3])

(***************************************************************************)
(* The port number of the habs loader                                      *)
(***************************************************************************)
\* d is the whole run of decimal digits that ends s
IsTrailingDigitRun(d, s) ==
    /\ Len(d) >= 1
    /\ Len(d) <= Len(s)
    /\ SubSeq(s, Len(s) - Len(d) + 1, Len(s)) = d
    /\ \A i \in 1..Len(d) : SubSeq(d, i, i) \in Digits
    /\ Len(d) < Len(s) =>
           SubSeq(s, Len(s) - Len(d), Len(s) - Len(d)) \notin Digits

\* C27: the value given to --pn on every STMFlashLoader.exe command line is
\* the whole run of trailing decimal digits of the device's port name.
C27_PortNumber ==
    [][(Len(argvLog') > Len(argvLog)
          /\ argvLog'[Len(argvLog')][3] = "--pn") =>
          IsTrailingDigitRun(argvLog'[Len(argvLog')][4], dev.args.port)]_vars

(***************************************************************************)
(* Device discovery, the battery gate and the cache directories            *)
(***************************************************************************)
\* C28: with a port, find_device tries only that port and raises
\* DeviceNotFoundError naming it when it does not open; with no port it
\* tries the enumerated ports in order, returns the first that opens
\* without trying a later one, and raises DeviceNotFoundError exactly when
\* none opens.
C28_FindDevice ==
    entry = "find_device" =>
        /\ portArg # "" =>
               /\ Tried \in {<<>>, <<portArg>>}
               /\ pc = "exit" =>
                      IF portArg \in openable
                        THEN status = "returned" /\ rets = <<portArg>>
                        ELSE /\ status = "raised"
                             /\ error = "DeviceNotFoundError"
                             /\ out = "Port given: " \o portArg
                             /\ rets = <<>>
        /\ portArg = "" =>
               /\ Len(Tried) <= Len(ports)
               /\ Tried = SubSeq(ports, 1, Len(Tried))
               /\ \A k \in 1..(Len(Tried) - 1) : Tried[k] \notin openable
               /\ pc = "exit" =>
                      /\ (status = "raised" /\ error = "DeviceNotFoundError")
                            <=> (\A k \in 1..Len(ports) :
                                     ports[k] \notin openable)
                      /\ status = "raised" => Tried = ports /\ rets = <<>>
                      /\ status = "returned" =>
                            /\ Tried[Len(Tried)] \in openable
                            /\ rets = <<Tried[Len(Tried)]>>
                      /\ status \in {"raised", "returned"}

\* the second port of three opened and was returned; the third was not tried
C28_Witness ==
    /\ entry = "find_device" /\ portArg = ""
    /\ ports = <<"COM12", "COM3", "COM7">> /\ openable = {"COM3", "COM7"}
    /\ Tried = <<"COM12", "COM3">> /\ rets = <<"COM3">>
    /\ status = "returned"

\* C29: when the operator does not confirm that the battery is removed,
\* _setup raises ValueError before any cache directory is created, any
\* download is attempted and any device is searched for or opened; init
\* returns 1 and the flash and configure commands exit with a non-zero code.
C29_BatteryGate ==
    /\ [](battery = "declined" =>
            /\ calls = <<>>
            /\ ~devExists /\ ~devOpen
            /\ pc = "exit"
            /\ entry = "init" => status = "returned1" /\ error = "ValueError"
            /\ entry \in PopenCommands => status = "exit1")
    /\ [][battery' = "declined" => cache' = cache /\ disk' = disk]_vars

\* init was declined with nothing done
C29_Witness ==
    /\ entry = "init" /\ battery = "declined" /\ status = "returned1"
    /\ cache = {} /\ calls = <<>>

C31_TargetValidation ==
    (entry = "get_targets" /\ cli.target # "") =>
        IF cli.target \in McuTargets \cup {"all"}
          THEN /\ status # "raised"
               /\ cli.target = "all" =>
                      plan = IF hasHabs THEN <<"habs", "ex", "re", "mn">>
                             ELSE <<"ex", "re", "mn">>
          ELSE /\ status = "raised" /\ error = "UnknownMCUError"
               /\ hsLog = <<>> /\ argvLog = <<>>

\* C35: computing a plan never modifies the configured list: after any
\* sequence of plan computations cfg.mcuTargets is still [habs, ex, re, mn],
\* and a request for "all" on a device with a Habs board yields
\* [habs, ex, re, mn].
C35_ConfigUnchanged ==
    /\ cfgTargets = <<"habs", "ex", "re", "mn">>
    /\ (entry \in PlanCommands /\ Len(rets) > 0 /\ status # "raised"
          /\ cli.target = "all" /\ hasHabs) =>
           rets[Len(rets)] = <<"habs", "ex", "re", "mn">>

\* C32: when the operator supplies a firmware file, the run resolves and
\* downloads nothing for any target of the plan and gives the supplied path
\* unchanged to the flash command of every target.
C32_FirmwareOverride ==
    /\ []((entry \in {"flash", "microcontroller"} /\ cli.firmware) =>
            /\ \A i \in 1..Len(calls) : calls[i][1] # "download"
            /\ fwFile \in {"", GivenFile}
            /\ \A i \in 1..Len(argvLog) : Contains(argvLog[i], GivenFile))
    /\ [][(entry \in {"flash", "microcontroller"} /\ cli.firmware) =>
             disk' = disk]_vars

\* the three targets of a plan were flashed with the supplied file
C32_Witness ==
    /\ entry = "flash" /\ cli.firmware /\ plan = <<"ex", "re", "mn">>
    /\ Len(argvLog) = 3 /\ status = "returned"
    /\ \A i \in 1..3 : Contains(argvLog[i], GivenFile)

(***************************************************************************)
(* The handshake loop: its bound, its connection and its activations       *)
(***************************************************************************)
\* C33: for every timeout T > 0 and every behaviour of the device the loop
\* of set_tunnel_mode runs at most T iterations; the remaining timeout
\* decreases by exactly 1 per iteration and is never negative.
C33_LoopBound ==
    /\ [](entry = "set_tunnel_mode" =>
            /\ queries <= T0
            /\ timeout >= 0
            /\ timeout = T0 - queries)
    /\ [][(entry = "set_tunnel_mode" /\ queries' # queries) =>
             /\ queries' = queries + 1
             /\ timeout' = timeout - 1]_vars

\* a handshake that used all of its eleven iterations
C33_Witness ==
    /\ entry = "set_tunnel_mode" /\ T0 = 11 /\ queries = 11 /\ timeout = 0
    /\ hpc = "returned" /\ hsRet = "False"

\* C34: every connection set_tunnel_mode opens is closed by the time the
\* call ends, whether it returns True, returns False or raises.
C34_HandshakeReleases ==
    (entry = "set_tunnel_mode" /\ hpc \in {"returned", "raised"}) =>
        hdev # "open"

\* C36: with the timeout of 20 that the callers pass, the activation is
\* sent in the first iteration, before any state query, and at most 4 times
\* in one handshake, at the remaining timeouts 20, 15, 10 and 5.
C36_ActivationFirst ==
    /\ []((entry = "set_tunnel_mode" /\ T0 = CallerTimeout) =>
            /\ sends <= 4
            /\ queries >= 1 => sends >= 1)
    /\ [][(entry = "set_tunnel_mode" /\ T0 = CallerTimeout) =>
             /\ (hpc = "loop" /\ queries = 0 /\ queries' = 1) =>
                    sends = 0 /\ sends' = 1 /\ timeout = 20
             /\ sends' # sends =>
                    sends' = sends + 1 /\ timeout \in {20, 15, 10, 5}]_vars

\* a handshake of 20 seconds that timed out after its fourth activation
C36_Witness ==
    /\ entry = "set_tunnel_mode" /\ T0 = CallerTimeout /\ sends = 4
    /\ queries = 20 /\ hpc = "returned" /\ hsRet = "False"

\* C37: in FlashCommand.handle every handshake is attempted on an open
\* connection; the connection is opened again after the power-cycle
\* acknowledgment of every target, the last one included; a run that
\* returns 0 ends with the connection open.
C37_ConnectionState ==
    /\ []((entry = "flash" /\ pc = "tunnel") => devOpen)
    /\ [][(entry = "flash" /\ acks' = acks + 1) =>
              (~devOpen /\ devOpen')]_vars
    /\ []((entry = "flash" /\ status = "returned") => devOpen)

C37_Witness ==
    /\ entry = "flash" /\ status = "returned" /\ Len(plan) = 3
    /\ acks = 3 /\ Len(hsLog) = 3 /\ idx = 3 /\ devOpen

\* C39: in BaseFlashCommand._set_tunnel_mode (flash-bt121 and flash-xbee),
\* when the operator declines the battery / power-supply confirmation the
\* command exits with status 1 without any handshake with the device (no
\* activation command, no state query) and without spawning the vendor tool.
C39_OperatorGate ==
    /\ [](gate = "declined" =>
            /\ entry \in {"bt121", "xbee"}
            /\ pc = "exit" /\ status = "exit1"
            /\ hsLog = <<>>
            /\ invocations = 0 /\ argvLog = <<>> /\ toolLog = <<>>
            /\ ~procRunning)
    /\ [][(entry \in {"bt121", "xbee"} /\ hsLog' # hsLog) =>
              gate' = "confirmed"]_vars
    /\ [][(entry \in {"bt121", "xbee"} /\ invocations' # invocations) =>
              gate = "confirmed"]_vars

C39_Witness ==
    /\ entry = "xbee" /\ gate = "declined" /\ status = "exit1"
    /\ devOpen /\ hsLog = <<>> /\ invocations = 0

====
